---------------------------- MODULE Spec2Model ----------------------------
(***************************************************************************)
(* A model of the ingestion core of lol-pro-stats: the Leaguepedia client  *)
(* (login, retrying cargo query, pagination, row normalisation,            *)
(* aggregation), the players store (add / update / upsert / delete /       *)
(* clear_all over the SQLite schema) and the import operation of the       *)
(* player service.                                                         *)
(*                                                                         *)
(* Python strings are sequences of one-character strings, so that lower(), *)
(* int() and truthiness are computed and not assumed.  A raw JSON value of *)
(* a cargo row is a record [t, s]: t = "absent" (key not in the row),      *)
(* t = "null" (JSON null, Python None) or t = "str" with s its characters. *)
(* The cargo API serialises every field value as a string or null.         *)
(***************************************************************************)
EXTENDS Integers, Sequences, FiniteSets, TLC

VARIABLES
    \* fetch_player_game_stats, normalisation loop (leaguepedia.py 362-408)
    results,        \* the raw rows handed to the loop
    norm_i,         \* number of rows already processed
    game_stats,     \* the list of GameStats built so far
    norm_src,       \* history: index of the raw row each GameStats came from
    norm_pc,        \* "idle" | "loop" | "done"
    \* aggregate_player_stats (leaguepedia.py 410-461)
    agg_in,         \* the list of GameStats handed to the aggregator
    agg_i,          \* number of records already folded
    players,        \* the dict being built, as its items in insertion order
    agg_pc,         \* "idle" | "loop" | "done"
    \* the players table (connection.py 48-65) and PlayerRepository
    table,          \* the rows of the players table
    seq_id,         \* largest id ever given (AUTOINCREMENT, sqlite_sequence)
    clock,          \* CURRENT_TIMESTAMP, in seconds
    table_prev,     \* history: the table before the last repository call
    last_op,        \* history: the last repository call and what it returned
    prev_op,        \* history: the repository call before it
    \* one run of PlayerService.import_from_leaguepedia on one client
    pc,             \* where the run stands
    scope,          \* the tournament and year asked for, and whether the source has rows for them
    observer,       \* the progress observer: "none" | "quiet" | "faulty"
    is_logged_in,   \* LeaguepediaClient.is_logged_in
    offset,         \* _cargo_query_all: offset of the page being queried
    all_results,    \* _cargo_query_all: the rows accumulated so far
    attempt,        \* _cargo_query: the retry loop's attempt
    query_failed,   \* history: a _cargo_query call ended without a server answer holding rows
    page_log,       \* history: the pages _cargo_query_all got and what the observer was told
    fetch_result,   \* what _cargo_query_all returned
    fetched,        \* history: fetch_player_game_stats has returned
    import_stats,   \* import: game_stats
    aggregated,     \* import: the aggregated dict, as its items in order
    save_i,         \* import: players handed to upsert so far
    imported_count, \* import: imported_count
    outcome,        \* what the run returned, or that it raised
    \* fetch_player_game_stats, the filter it builds (leaguepedia.py 296-348)
    tournament_filter,  \* the label asked for
    year,           \* the year asked for
    where_parts,    \* the conditions collected so far
    filter_pc,      \* "idle" | "label" | "tier" | "join" | "done" | "raised"
    \* one LeaguepediaClient and the requests it sends (leaguepedia.py 60-257)
    cl_pc,          \* "off" | "ready" | "token" | "submit" | "attempt"
    cl_op,          \* the operation: "none" | "login" | "query_all" | "image"
    elapsed,        \* tenths of a second since last_request_time, at most the delay
    last_request,   \* history: the last request and the _rate_limit call before it
    answers,        \* history: the answers to the requests of the current _cargo_query
    waits,          \* history: the seconds slept by the current _cargo_query
    cq_result,      \* how the last _cargo_query ended
    qa_result,      \* how the last _cargo_query_all ended
    login_log,      \* history: the last login() call
    \* the derived statistics of a Player (models.py 41-98)
    totals,         \* the Player's totals
    derived,        \* the values of its properties
    derived_pc,     \* "idle" | "built" | "read"
    \* one call of search_player_image (leaguepedia.py 513-637)
    img_team,       \* the team argument, "" when none is given
    img_index,      \* the upstream's answer to each prefix search, in order
    img_p,          \* prefixes searched so far
    best_image,     \* search_player_image: best_image
    best_score,     \* search_player_image: best_score
    img_pc,         \* "idle" | "search" | "fallback" | "done"
    img_ret,        \* what the call returned
    \* two HTTP requests served by threads of the Flask server, each with a
    \* LeaguepediaClient of its own (main.py 9-11, import_routes.py 42-48)
    th_pc,          \* per thread: "idle" | "ready" | "sleep" | "flight" | "done"
    th_elapsed,     \* per client: tenths since its last_request_time, at most the delay
    th_sleep,       \* per thread: tenths of its time.sleep still to pass
    th_sent,        \* per client: requests dispatched
    dispatched,     \* history: upstream requests dispatched so far, up to 2
    since_dispatch, \* history: tenths since the last dispatch, at most the delay
    last_gap,       \* history: tenths between the last dispatch and the one before
    \* two PlayerRepository.upsert calls on threads of their own, beside a
    \* delete or clear_all (repository.py 145-164, 166-200)
    up_pc,          \* per thread: "idle" | "looked" | "done"
    up_existing,    \* per thread: existing.id of its get_by_ign, 0 for None
    up_ret,         \* per thread: "none", or what its upsert returned: "ok" | "failed"
    up_wrote,       \* history, per thread: the write its upsert made: "add" | "update"
    up_log          \* history: the statements run on the table, in order

norm_vars == <<results, norm_i, game_stats, norm_src, norm_pc>>
agg_vars == <<agg_in, agg_i, players, agg_pc>>

store_vars == <<table, seq_id, clock, table_prev, last_op, prev_op>>

client_vars == <<is_logged_in, offset, all_results, attempt, query_failed, page_log>>
import_vars ==
    <<pc, scope, observer, fetch_result, fetched, import_stats, aggregated,
      save_i, imported_count, outcome>>

filter_vars == <<tournament_filter, year, where_parts, filter_pc>>

session_vars ==
    <<cl_pc, cl_op, elapsed, last_request, answers, waits, cq_result, qa_result,
      login_log>>

derived_vars == <<totals, derived, derived_pc>>

image_vars == <<img_team, img_index, img_p, best_image, best_score, img_pc, img_ret>>

web_vars == <<th_pc, th_elapsed, th_sleep, th_sent, dispatched, since_dispatch, last_gap>>

upsert_vars == <<up_pc, up_existing, up_ret, up_wrote, up_log>>

vars ==
    <<norm_vars, agg_vars, store_vars, client_vars, import_vars, filter_vars,
      session_vars, derived_vars,
      image_vars,
      web_vars,
      upsert_vars>>

\* what the actions of one component leave alone
norm_frame ==
    <<agg_vars, store_vars, client_vars, import_vars, filter_vars, session_vars,
      derived_vars,
      image_vars,
      web_vars,
      upsert_vars>>
agg_frame ==
    <<norm_vars, store_vars, client_vars, import_vars, filter_vars, session_vars,
      derived_vars,
      image_vars,
      web_vars,
      upsert_vars>>
store_frame ==
    <<norm_vars, agg_vars, client_vars, import_vars, filter_vars, session_vars,
      derived_vars,
      image_vars,
      web_vars,
      upsert_vars>>
import_frame == <<norm_vars, agg_vars, filter_vars, session_vars, derived_vars,
      image_vars,
      web_vars,
      upsert_vars>>
filter_frame ==
    <<norm_vars, agg_vars, store_vars, client_vars, import_vars, session_vars,
      derived_vars,
      image_vars,
      web_vars,
      upsert_vars>>
session_frame ==
    <<norm_vars, agg_vars, store_vars, import_vars, filter_vars, derived_vars,
      all_results, query_failed,
      page_log,
      image_vars,
      web_vars,
      upsert_vars>>
derived_frame ==
    <<norm_vars, agg_vars, store_vars, client_vars, import_vars, filter_vars,
      session_vars,
      image_vars,
      web_vars,
      upsert_vars>>

image_frame ==
    <<norm_vars, agg_vars, store_vars, client_vars, import_vars, filter_vars,
      session_vars, derived_vars,
      web_vars,
      upsert_vars>>

web_frame ==
    <<norm_vars, agg_vars, store_vars, client_vars, import_vars, filter_vars,
      session_vars, derived_vars, image_vars,
      upsert_vars>>

upsert_frame ==
    <<norm_vars, agg_vars, client_vars, import_vars, filter_vars, session_vars,
      derived_vars, image_vars, web_vars, clock, table_prev, last_op, prev_op>>

-----------------------------------------------------------------------------
(* Program constants *)

\* config.py; the delay of 0.5 s is counted in tenths of a second
API_REQUEST_DELAY == 5
API_MAX_LIMIT == 500
API_MAX_RETRIES == 5
\* _cargo_query_all: max_results
max_results == 2500

-----------------------------------------------------------------------------
(* Bounds of the model *)

\* longest list of raw rows handed to the normalisation loop
MaxRows == 2
\* longest list of GameStats handed to the aggregator
MaxGames == 3
\* largest row id the store hands out
MaxId == 3
\* latest second the store's clock reaches
MaxClock == 1

-----------------------------------------------------------------------------
(* Python values *)

None == [t |-> "null", s |-> <<>>]
Missing == [t |-> "absent", s |-> <<>>]
Str(chars) == [t |-> "str", s |-> chars]
EmptyStr == Str(<<>>)

\* dict.get(key, default): the default only when the key is absent
DictGet(r, key, default) ==
    IF r[key].t = "absent" THEN default ELSE r[key]

\* Python truthiness of None / str
Truthy(v) == v.t = "str" /\ v.s # <<>>

LowerOf ==
    ("A" :> "a") @@ ("B" :> "b") @@ ("C" :> "c") @@ ("D" :> "d") @@
    ("E" :> "e") @@ ("F" :> "f") @@ ("G" :> "g") @@ ("H" :> "h") @@
    ("I" :> "i") @@ ("J" :> "j") @@ ("K" :> "k") @@ ("L" :> "l") @@
    ("M" :> "m") @@ ("N" :> "n") @@ ("O" :> "o") @@ ("P" :> "p") @@
    ("Q" :> "q") @@ ("R" :> "r") @@ ("S" :> "s") @@ ("T" :> "t") @@
    ("U" :> "u") @@ ("V" :> "v") @@ ("W" :> "w") @@ ("X" :> "x") @@
    ("Y" :> "y") @@ ("Z" :> "z")

\* str.lower()
Lower(chars) ==
    [i \in 1..Len(chars) |->
        IF chars[i] \in DOMAIN LowerOf THEN LowerOf[chars[i]] ELSE chars[i]]

DigitVal ==
    ("0" :> 0) @@ ("1" :> 1) @@ ("2" :> 2) @@ ("3" :> 3) @@ ("4" :> 4) @@
    ("5" :> 5) @@ ("6" :> 6) @@ ("7" :> 7) @@ ("8" :> 8) @@ ("9" :> 9)

RECURSIVE LStrip(_)
LStrip(chars) ==
    IF chars # <<>> /\ Head(chars) = " " THEN LStrip(Tail(chars)) ELSE chars

RECURSIVE RStrip(_)
RStrip(chars) ==
    IF chars # <<>> /\ chars[Len(chars)] = " "
    THEN RStrip(SubSeq(chars, 1, Len(chars) - 1))
    ELSE chars

\* str.strip()
Strip(chars) == RStrip(LStrip(chars))

RECURSIVE DigitsValue(_, _)
DigitsValue(chars, acc) ==
    IF chars = <<>> THEN acc
    ELSE DigitsValue(Tail(chars), 10 * acc + DigitVal[Head(chars)])

\* int(str): surrounding blanks, an optional sign, then decimal digits only.
\* [ok |-> FALSE] stands for the ValueError Python raises.
IntOfStr(chars) ==
    LET body == Strip(chars)
        signed == body # <<>> /\ Head(body) \in {"-", "+"}
        digits == IF signed THEN Tail(body) ELSE body
        wellformed == digits # <<>> /\ \A i \in 1..Len(digits) : digits[i] \in DOMAIN DigitVal
    IN  IF ~wellformed THEN [ok |-> FALSE, v |-> 0]
        ELSE [ok |-> TRUE,
              v |-> IF signed /\ Head(body) = "-"
                    THEN 0 - DigitsValue(digits, 0)
                    ELSE DigitsValue(digits, 0)]

-----------------------------------------------------------------------------
(* Python floats (IEEE binary64) on the range the durations live in.       *)
(* A float x with 0 <= x < 2^32 that is a multiple of 2^-48 is the triple  *)
(* [top, hi, lo] with x = (top * 2^56 + hi * 2^28 + lo) * 2^-48 and        *)
(* 0 <= hi, lo < 2^28; every binary64 value in [16, 2^32) is such a        *)
(* multiple.  FAdd is the binary64 sum: the exact sum rounded to 53        *)
(* significant bits, ties to even.                                         *)

Limb == 2^28

FloatVal(top, hi, lo) == [top |-> top, hi |-> hi, lo |-> lo]
FZero == FloatVal(0, 0, 0)
\* float of a non-negative integer below 2^32 (exact)
FloatOfNat(n) == FloatVal(n \div 256, (n % 256) * 2^20, 0)
\* the floats that are whole numbers, and their value
IsWhole(x) == x.lo = 0 /\ x.hi % 2^20 = 0
WholeValue(x) == x.top * 256 + x.hi \div 2^20

RECURSIVE BitLen(_)
BitLen(n) == IF n = 0 THEN 0 ELSE 1 + BitLen(n \div 2)

\* spacing of binary64 values, in units of 2^-48, around top * 2^56 + hi * 2^28:
\* 1 up to 53 significant bits, doubling with every bit beyond
Ulp(top, hi) ==
    LET bits == IF top > 0 THEN 56 + BitLen(top) ELSE 28 + BitLen(hi)
    IN  IF bits > 53 THEN 2^(bits - 53) ELSE 1

\* round the exact value to the nearest binary64, ties to even
FRound(top, hi, lo) ==
    LET step == Ulp(top, hi)
        rest == lo % step
        quot == lo \div step
        up   == (2 * rest > step) \/ (2 * rest = step /\ quot % 2 = 1)
        lo2  == (lo - rest) + (IF up THEN step ELSE 0)
        hi2  == hi + lo2 \div Limb
    IN  FloatVal(top + hi2 \div Limb, hi2 % Limb, lo2 % Limb)

\* x + y on floats
FAdd(x, y) ==
    LET lo == x.lo + y.lo
        hi == x.hi + y.hi + lo \div Limb
    IN  FRound(x.top + y.top + hi \div Limb, hi % Limb, lo % Limb)

\* float(str) for the duration strings of the model: the decimal literals
\* below, correctly rounded (31.45 = 0x1.f733333333333p+4, 28.1 =
\* 0x1.c19999999999ap+4, 25.9 = 0x1.9e66666666666p+4), and integer literals.
\* [ok |-> FALSE] stands for the ValueError Python raises.
FloatOfStr(chars) ==
    LET body == Strip(chars)
        asInt == IntOfStr(chars)
    IN  CASE body = <<"3", "1", ".", "4", "5">> ->
                [ok |-> TRUE, v |-> FloatVal(0, 32977715, 53687091)]
          [] body = <<"2", "8", ".", "1">> ->
                [ok |-> TRUE, v |-> FloatVal(0, 29464985, 161061274)]
          [] body = <<"2", "5", ".", "9">> ->
                [ok |-> TRUE, v |-> FloatVal(0, 27158118, 107374182)]
          [] OTHER ->
                IF asInt.ok /\ asInt.v >= 0 /\ asInt.v < 2^30
                THEN [ok |-> TRUE, v |-> FloatOfNat(asInt.v)]
                ELSE [ok |-> FALSE, v |-> FZero]

-----------------------------------------------------------------------------
(* Raw cargo rows: the inputs of the normalisation loop *)

Faker == <<"F", "a", "k", "e", "r">>
Chovy == <<"C", "h", "o", "v", "y">>

Fields ==
    {"Link", "Role", "Team", "Champion", "Kills", "Deaths", "Assists", "Gold",
     "CS", "DamageToChampions", "PlayerWin", "GameId", "Gamelength Number"}

NumericFields == {"Kills", "Deaths", "Assists", "Gold", "CS", "DamageToChampions"}

\* a fully populated row, as the cargo API returns it
BaseRow ==
    [f \in Fields |->
        CASE f = "Link" -> Str(Faker)
          [] f = "Role" -> Str(<<"M", "i", "d">>)
          [] f = "Team" -> Str(<<"T", "1">>)
          [] f = "Champion" -> Str(<<"A", "h", "r", "i">>)
          [] f = "Kills" -> Str(<<"5">>)
          [] f = "Deaths" -> Str(<<"2">>)
          [] f = "Assists" -> Str(<<"1", "0">>)
          [] f = "Gold" -> Str(<<"1", "5", "0", "0", "0">>)
          [] f = "CS" -> Str(<<"2", "5", "0">>)
          [] f = "DamageToChampions" -> Str(<<"2", "5", "0", "0", "0">>)
          [] f = "PlayerWin" -> Str(<<"Y", "e", "s">>)
          [] f = "GameId" -> Str(<<"G", "1">>)
          [] f = "Gamelength Number" -> Str(<<"3", "0">>)]

Abc == Str(<<"a", "b", "c">>)

\* the values a field takes besides its value in BaseRow
RawValues(f) ==
    {Missing, None} \cup
    CASE f = "Link" -> {EmptyStr, Str(Chovy)}
      [] f = "Kills" ->
            {EmptyStr, Abc, Str(<<"-", "3">>), Str(<<"3", ".", "5">>),
             Str(<<" ", "7", " ">>), Str(<<"0">>)}
      [] f \in NumericFields \ {"Kills"} -> {Abc, Str(<<"2">>)}
      [] f = "PlayerWin" ->
            {EmptyStr, Str(<<"y", "e", "s">>), Str(<<"Y", "E", "S">>),
             Str(<<"1">>), Str(<<"T", "r", "u", "e">>), Str(<<"N", "o">>),
             Str(<<"0">>), Str(<<"y">>)}
      [] f = "Gamelength Number" ->
            {EmptyStr, Abc, Str(<<"3", "1", ".", "4", "5">>),
             Str(<<"2", "8", ".", "1">>), Str(<<"2", "8">>), Str(<<"0">>)}
      [] f = "Role" -> {EmptyStr, Str(<<"T", "o", "p">>)}
      [] f = "Team" -> {EmptyStr, Str(<<"G", "E", "N">>)}
      [] OTHER -> {EmptyStr}

\* BaseRow and every row that differs from it in one field
RawRows ==
    {BaseRow} \cup
    UNION {{[BaseRow EXCEPT ![f] = v] : v \in RawValues(f)} : f \in Fields}

SeqsUpTo(S, n) == UNION {[1..k -> S] : k \in 0..n}

-----------------------------------------------------------------------------
(* fetch_player_game_stats: the normalisation of one raw row *)

TruthTokens == {<<"y", "e", "s">>, <<"1">>, <<"t", "r", "u", "e">>}

\* r.get("PlayerWin", "").lower() raises AttributeError on None
PlayerWinRaises(r) == DictGet(r, "PlayerWin", EmptyStr).t = "null"

\* the membership test on the value as it came, not lower-cased
PlayerWonAsWritten(r) == DictGet(r, "PlayerWin", EmptyStr).s \in TruthTokens

\* won = player_win in ("yes", "1", "true")
PlayerWon(r) == Lower(DictGet(r, "PlayerWin", EmptyStr).s) \in TruthTokens

\* game_length = 30.0; gl = r.get(...); if gl: try float(gl) except: pass
DefaultGameLength == FloatOfNat(30)

GameLength(r) ==
    LET gl == DictGet(r, "Gamelength Number", None)
    IN  IF Truthy(gl) /\ FloatOfStr(gl.s).ok
        THEN FloatOfStr(gl.s).v
        ELSE DefaultGameLength

\* def safe_int(val, default=0): int(val) if val else default, default on error
safe_int(val, default) ==
    IF Truthy(val) /\ IntOfStr(val.s).ok THEN IntOfStr(val.s).v ELSE default

\* GameStats(...) built from row r
MakeGameStats(r) ==
    [game_id |-> DictGet(r, "GameId", EmptyStr),
     player_name |-> DictGet(r, "Link", EmptyStr),
     role |-> DictGet(r, "Role", EmptyStr),
     team |-> DictGet(r, "Team", EmptyStr),
     champion |-> DictGet(r, "Champion", EmptyStr),
     kills |-> safe_int(DictGet(r, "Kills", None), 0),
     deaths |-> safe_int(DictGet(r, "Deaths", None), 0),
     assists |-> safe_int(DictGet(r, "Assists", None), 0),
     gold |-> safe_int(DictGet(r, "Gold", None), 0),
     cs |-> safe_int(DictGet(r, "CS", None), 0),
     damage |-> safe_int(DictGet(r, "DamageToChampions", None), 0),
     won |-> PlayerWon(r),
     game_length_minutes |-> GameLength(r)]

\* the body of the for loop: the row is appended unless the try block raised
\* or the player name is falsy
RowEmitted(r) == ~PlayerWinRaises(r) /\ Truthy(MakeGameStats(r).player_name)

\* the whole loop as a function of the rows (used where the loop is one step)
RECURSIVE NormalizeAll(_)
NormalizeAll(rows) ==
    IF rows = <<>> THEN <<>>
    ELSE (IF RowEmitted(Head(rows)) THEN <<MakeGameStats(Head(rows))>> ELSE <<>>)
         \o NormalizeAll(Tail(rows))

NormIdle ==
    /\ results = <<>>
    /\ norm_i = 0
    /\ game_stats = <<>>
    /\ norm_src = <<>>
    /\ norm_pc = "idle"

NormInit ==
    /\ results \in SeqsUpTo(RawRows, MaxRows)
    /\ norm_i = 0
    /\ game_stats = <<>>
    /\ norm_src = <<>>
    /\ norm_pc = "loop"

\* one iteration of "for r in results"
NormStep ==
    /\ norm_pc = "loop"
    /\ norm_i < Len(results)
    /\ LET r == results[norm_i + 1]
       IN  IF RowEmitted(r)
           THEN /\ game_stats' = Append(game_stats, MakeGameStats(r))
                /\ norm_src' = Append(norm_src, norm_i + 1)
           ELSE UNCHANGED <<game_stats, norm_src>>
    /\ norm_i' = norm_i + 1
    /\ UNCHANGED <<results, norm_pc, norm_frame>>

\* return game_stats
NormReturn ==
    /\ norm_pc = "loop"
    /\ norm_i = Len(results)
    /\ norm_pc' = "done"
    /\ UNCHANGED <<results, norm_i, game_stats, norm_src, norm_frame>>

NormNext == NormStep \/ NormReturn

\* order_by "SP.DateTime_UTC DESC": the games, given from the oldest to the
\* latest, as the source returns them
OrderByDateDesc(games) == [i \in 1..Len(games) |-> games[Len(games) - i + 1]]

\* the place by date of the i-th fetched row, 1 for the oldest game
DateRank(i) == Len(results) - i + 1

\* the rows of a fetch, ordered as the query asks
FetchedInit ==
    /\ results \in {OrderByDateDesc(games) : games \in SeqsUpTo(RawRows, MaxRows)}
    /\ norm_i = 0
    /\ game_stats = <<>>
    /\ norm_src = <<>>
    /\ norm_pc = "loop"


-----------------------------------------------------------------------------
(* aggregate_player_stats *)

\* position of the key name in the dict, 0 when it is not a key
KeyIndex(dict, name) ==
    IF \E i \in 1..Len(dict) : dict[i].ign = name
    THEN CHOOSE i \in 1..Len(dict) : dict[i].ign = name
    ELSE 0

\* players[name] = {...}: the entry created at the first record of a name
NewTotals(gs) ==
    [ign |-> gs.player_name, role |-> gs.role, team |-> gs.team,
     games_played |-> 0, wins |-> 0, kills |-> 0, deaths |-> 0, assists |-> 0,
     total_gold |-> 0, total_cs |-> 0, total_damage |-> 0,
     total_minutes |-> FZero]

\* an entry that keeps the kills of the last record instead of their sum
AddGameLastKills(p, gs) ==
    [p EXCEPT
        !.games_played = @ + 1,
        !.wins = @ + (IF gs.won THEN 1 ELSE 0),
        !.kills = gs.kills,
        !.deaths = @ + gs.deaths,
        !.assists = @ + gs.assists,
        !.total_gold = @ + gs.gold,
        !.total_cs = @ + gs.cs,
        !.total_damage = @ + gs.damage,
        !.total_minutes = FAdd(@, gs.game_length_minutes),
        !.role = IF Truthy(gs.role) THEN gs.role ELSE @,
        !.team = IF Truthy(gs.team) THEN gs.team ELSE @]

\* an entry that takes role and team from every record, empty or not
AddGameRoleOfLast(p, gs) ==
    [p EXCEPT
        !.games_played = @ + 1,
        !.wins = @ + (IF gs.won THEN 1 ELSE 0),
        !.kills = @ + gs.kills,
        !.deaths = @ + gs.deaths,
        !.assists = @ + gs.assists,
        !.total_gold = @ + gs.gold,
        !.total_cs = @ + gs.cs,
        !.total_damage = @ + gs.damage,
        !.total_minutes = FAdd(@, gs.game_length_minutes),
        !.role = gs.role,
        !.team = gs.team]

\* the += lines and the role/team update on the entry p
AddGame(p, gs) ==
    [p EXCEPT
        !.games_played = @ + 1,
        !.wins = @ + (IF gs.won THEN 1 ELSE 0),
        !.kills = @ + gs.kills,
        !.deaths = @ + gs.deaths,
        !.assists = @ + gs.assists,
        !.total_gold = @ + gs.gold,
        !.total_cs = @ + gs.cs,
        !.total_damage = @ + gs.damage,
        !.total_minutes = FAdd(@, gs.game_length_minutes),
        !.role = IF Truthy(gs.role) THEN gs.role ELSE @,
        !.team = IF Truthy(gs.team) THEN gs.team ELSE @]

\* one iteration of "for gs in game_stats"
AggOne(dict, gs) ==
    LET withKey == IF KeyIndex(dict, gs.player_name) = 0
                   THEN Append(dict, NewTotals(gs))
                   ELSE dict
        k == KeyIndex(withKey, gs.player_name)
    IN  [withKey EXCEPT ![k] = AddGame(@, gs)]

\* the whole function
RECURSIVE AggFold(_, _)
AggFold(dict, list) ==
    IF list = <<>> THEN dict ELSE AggFold(AggOne(dict, Head(list)), Tail(list))

aggregate_player_stats(list) == AggFold(<<>>, list)

\* the rows the aggregator's inputs are normalised from: the two games of the
\* documented example, three games with fractional durations, a game of
\* another player, a game without role and team, a game with another role,
\* a game with a third role and no team
FakerWin == BaseRow
FakerLoss ==
    [BaseRow EXCEPT !["Kills"] = Str(<<"2">>), !["Deaths"] = Str(<<"4">>),
                    !["Assists"] = Str(<<"5">>), !["PlayerWin"] = Str(<<"N", "o">>),
                    !["Gamelength Number"] = Str(<<"2", "8">>)]
AggRows ==
    {FakerWin, FakerLoss,
     [BaseRow EXCEPT !["Gamelength Number"] = Str(<<"3", "1", ".", "4", "5">>)],
     [BaseRow EXCEPT !["Gamelength Number"] = Str(<<"2", "8", ".", "1">>)],
     [BaseRow EXCEPT !["Gamelength Number"] = Str(<<"2", "5", ".", "9">>),
                     !["PlayerWin"] = Str(<<"0">>)],
     [BaseRow EXCEPT !["Link"] = Str(Chovy), !["Team"] = Str(<<"G", "E", "N">>)],
     [BaseRow EXCEPT !["Role"] = EmptyStr, !["Team"] = None],
     [BaseRow EXCEPT !["Role"] = Str(<<"T", "o", "p">>), !["Kills"] = Str(<<"0">>)],
     [BaseRow EXCEPT !["Role"] = Str(<<"A", "D", "C">>), !["Team"] = EmptyStr]}

AggRecords == {MakeGameStats(r) : r \in AggRows}

AggIdle ==
    /\ agg_in = <<>>
    /\ agg_i = 0
    /\ players = <<>>
    /\ agg_pc = "idle"

AggInit ==
    /\ agg_in \in SeqsUpTo(AggRecords, MaxGames)
    /\ agg_i = 0
    /\ players = <<>>
    /\ agg_pc = "loop"

AggStep ==
    /\ agg_pc = "loop"
    /\ agg_i < Len(agg_in)
    /\ players' = AggOne(players, agg_in[agg_i + 1])
    /\ agg_i' = agg_i + 1
    /\ UNCHANGED <<agg_in, agg_pc, agg_frame>>

\* return players
AggReturn ==
    /\ agg_pc = "loop"
    /\ agg_i = Len(agg_in)
    /\ agg_pc' = "done"
    /\ UNCHANGED <<agg_in, agg_i, players, agg_frame>>

AggNext == AggStep \/ AggReturn

\* the import hands the records of the fetch to aggregate_player_stats
AggregateFetched ==
    /\ norm_pc = "done"
    /\ agg_pc = "idle"
    /\ Len(game_stats) > 0
    /\ agg_in' = game_stats
    /\ agg_pc' = "loop"
    /\ UNCHANGED <<agg_i, players, norm_vars, store_vars, client_vars,
                   import_vars, filter_vars, session_vars, derived_vars,
                   image_vars, web_vars, upsert_vars>>

FetchAggregateNext ==
    \/ NormStep
    \/ NormReturn
    \/ AggregateFetched
    \/ AggStep
    \/ AggReturn

-----------------------------------------------------------------------------
(* The players table and PlayerRepository.  A row is a record with the     *)
(* columns of CREATE TABLE players; a Player handed to the repository is   *)
(* the totals record the aggregator builds (ign, role, team and the        *)
(* accumulators), its id being passed beside it.                           *)

TotalsFields ==
    {"ign", "role", "team", "games_played", "wins", "kills", "deaths",
     "assists", "total_gold", "total_cs", "total_damage", "total_minutes"}

\* the row holding the values of Player p under id, stamped now
RowOf(id, p, now) ==
    [f \in TotalsFields \cup {"id", "last_updated"} |->
        CASE f = "id" -> id
          [] f = "last_updated" -> now
          [] OTHER -> p[f]]

\* the Player values of a row (Player.from_row without id and timestamp)
TotalsOf(row) == [f \in TotalsFields |-> row[f]]

\* ign TEXT NOT NULL, role TEXT NOT NULL
NotNullViolation(p) == p.ign.t # "str" \/ p.role.t # "str"

\* a table without the UNIQUE constraint
NoUniqueViolation(rows, id, ign) == FALSE

\* ign ... UNIQUE: another row than id already holds the ign
UniqueViolation(rows, id, ign) ==
    \E r \in rows : r.id # id /\ r.ign = ign

\* SELECT * FROM players WHERE ign = ? ; fetchone()
get_by_ign(rows, ign) ==
    IF \E r \in rows : r.ign = ign
    THEN {CHOOSE r \in rows : r.ign = ign /\ \A q \in rows : q.ign = ign => r.id <= q.id}
    ELSE {}

\* PlayerRepository.add: INSERT, the id from AUTOINCREMENT, the timestamp
\* from the column default; any sqlite error is returned as (False, message)
RepoAdd(db, p, now) ==
    IF NotNullViolation(p) \/ UniqueViolation(db.rows, 0, p.ign)
    THEN [rows |-> db.rows, seq |-> db.seq, ok |-> FALSE]
    ELSE [rows |-> db.rows \cup {RowOf(db.seq + 1, p, now)},
          seq |-> db.seq + 1, ok |-> TRUE]

\* an UPDATE that leaves last_updated as it was
UpdatedRowKeepStamp(old, p, now) == RowOf(old.id, p, old.last_updated)

\* the SET list of the UPDATE statement applied to the row old
UpdatedRow(old, p, now) == RowOf(old.id, p, now)

\* a PlayerRepository.update that fails when no row has the id
RepoUpdateRowRequired(db, id, p, now) ==
    IF id = 0 \/ ~\E r \in db.rows : r.id = id
    THEN [rows |-> db.rows, seq |-> db.seq, ok |-> FALSE]
    ELSE IF NotNullViolation(p) \/ UniqueViolation(db.rows, id, p.ign)
    THEN [rows |-> db.rows, seq |-> db.seq, ok |-> FALSE]
    ELSE [rows |-> {IF r.id = id THEN UpdatedRow(r, p, now) ELSE r : r \in db.rows},
          seq |-> db.seq, ok |-> TRUE]

\* PlayerRepository.update with player.id = id (0 stands for None)
RepoUpdate(db, id, p, now) ==
    IF id = 0 THEN [rows |-> db.rows, seq |-> db.seq, ok |-> FALSE]
    ELSE IF ~\E r \in db.rows : r.id = id
    THEN [rows |-> db.rows, seq |-> db.seq, ok |-> TRUE]
    ELSE IF NotNullViolation(p) \/ UniqueViolation(db.rows, id, p.ign)
    THEN [rows |-> db.rows, seq |-> db.seq, ok |-> FALSE]
    ELSE [rows |-> {IF r.id = id THEN UpdatedRow(r, p, now) ELSE r : r \in db.rows},
          seq |-> db.seq, ok |-> TRUE]

\* an upsert that adds the new accumulators to the stored ones
RepoUpsertMerge(db, p, now) ==
    LET existing == get_by_ign(db.rows, p.ign)
        old == CHOOSE r \in existing : TRUE
        sum == [p EXCEPT !.games_played = @ + old.games_played,
                         !.wins = @ + old.wins,
                         !.kills = @ + old.kills,
                         !.deaths = @ + old.deaths,
                         !.assists = @ + old.assists,
                         !.total_gold = @ + old.total_gold,
                         !.total_cs = @ + old.total_cs,
                         !.total_damage = @ + old.total_damage,
                         !.total_minutes = FAdd(@, old.total_minutes)]
    IN  IF existing # {}
        THEN RepoUpdate(db, old.id, sum, now)
        ELSE RepoAdd(db, p, now)

\* PlayerRepository.upsert, its lookup and its write run one after the other
RepoUpsert(db, p, now) ==
    LET existing == get_by_ign(db.rows, p.ign)
    IN  IF existing # {}
        THEN RepoUpdate(db, (CHOOSE r \in existing : TRUE).id, p, now)
        ELSE RepoAdd(db, p, now)

\* the Players handed to the repository: the totals of one game and of the
\* two documented games of Faker, and the totals of one game of Chovy
ChovyGame == [BaseRow EXCEPT !["Link"] = Str(Chovy), !["Team"] = Str(<<"G", "E", "N">>)]

StorePlayers ==
    {aggregate_player_stats(NormalizeAll(rows))[1] :
        rows \in {<<FakerWin>>, <<FakerWin, FakerLoss>>, <<ChovyGame>>}}

\* the Players of one import run, in the order the aggregated dict holds them
ImportBatches ==
    {aggregate_player_stats(NormalizeAll(rows)) :
        rows \in {<<FakerWin, ChovyGame>>, <<FakerLoss>>}}

NoOp == [op |-> "none", p |-> <<>>, id |-> 0, ok |-> TRUE, now |-> 0]

StoreIdle ==
    /\ table = {}
    /\ seq_id = 0
    /\ clock = 0
    /\ table_prev = {}
    /\ last_op = NoOp
    /\ prev_op = NoOp

\* init_db() on a new database file
StoreInit == StoreIdle

Db == [rows |-> table, seq |-> seq_id]

\* the state after a repository call that returned res
Called(op, p, id, res) ==
    /\ table' = res.rows
    /\ seq_id' = res.seq
    /\ table_prev' = table
    /\ prev_op' = last_op
    /\ last_op' = [op |-> op, p |-> p, id |-> id, ok |-> res.ok, now |-> clock]
    /\ UNCHANGED <<clock, store_frame>>

Add ==
    \E p \in StorePlayers :
        /\ seq_id < MaxId
        /\ Called("add", p, 0, RepoAdd(Db, p, clock))

Update ==
    \E p \in StorePlayers, id \in 0..MaxId :
        Called("update", p, id, RepoUpdate(Db, id, p, clock))

Upsert ==
    \E p \in StorePlayers :
        /\ seq_id < MaxId
        /\ Called("upsert", p, 0, RepoUpsert(Db, p, clock))

\* the save loop of import_from_leaguepedia: upsert for each aggregated player
RECURSIVE SaveAll(_, _, _)
SaveAll(db, list, now) ==
    IF list = <<>> THEN [rows |-> db.rows, seq |-> db.seq, ok |-> TRUE]
    ELSE LET res == RepoUpsert(db, Head(list), now)
         IN  SaveAll([rows |-> res.rows, seq |-> res.seq], Tail(list), now)

Import ==
    \E batch \in ImportBatches :
        /\ seq_id + Len(batch) <= MaxId
        /\ Called("import", batch, 0, SaveAll(Db, batch, clock))

\* PlayerRepository.delete: DELETE FROM players WHERE id = ?
Delete ==
    \E id \in 1..MaxId :
        Called("delete", <<>>, id,
               [rows |-> {r \in table : r.id # id}, seq |-> seq_id,
                ok |-> \E r \in table : r.id = id])

\* PlayerRepository.clear_all: DELETE FROM players
ClearAll ==
    Called("clear_all", <<>>, 0, [rows |-> {}, seq |-> seq_id, ok |-> TRUE])

\* a second passes
Tick ==
    /\ clock < MaxClock
    /\ clock' = clock + 1
    /\ UNCHANGED <<table, seq_id, table_prev, last_op, prev_op, store_frame>>

StoreNext == Add \/ Update \/ Upsert \/ Import \/ Delete \/ ClearAll \/ Tick

-----------------------------------------------------------------------------
(* Long lists.  The lists of the import run hold up to 2500 rows; such a   *)
(* list is kept as its runs of equal elements: a sequence of blocks        *)
(* [item, n], n >= 1 copies of item.                                       *)

Block(item, n) == [item |-> item, n |-> n]

\* len(list)
RECURSIVE ListLen(_)
ListLen(list) ==
    IF list = <<>> THEN 0 ELSE Head(list).n + ListLen(Tail(list))

\* list.extend(more); equal neighbours share a block
RECURSIVE Extend(_, _)
Extend(list, more) ==
    IF more = <<>> THEN list
    ELSE IF list # <<>> /\ list[Len(list)].item = Head(more).item
    THEN Extend([list EXCEPT ![Len(list)].n = @ + Head(more).n], Tail(more))
    ELSE Extend(Append(list, Head(more)), Tail(more))

\* the whole list where list[:k] stands
TakeAll(list, k) == list

\* list[:k]
RECURSIVE Take(_, _)
Take(list, k) ==
    IF list = <<>> \/ k <= 0 THEN <<>>
    ELSE IF Head(list).n <= k
    THEN <<Head(list)>> \o Take(Tail(list), k - Head(list).n)
    ELSE <<Block(Head(list).item, k)>>

\* the normalisation loop over a long list: equal rows fare equally
RECURSIVE NormalizeBlocks(_)
NormalizeBlocks(list) ==
    IF list = <<>> THEN <<>>
    ELSE (IF RowEmitted(Head(list).item)
          THEN <<Block(MakeGameStats(Head(list).item), Head(list).n)>>
          ELSE <<>>)
         \o NormalizeBlocks(Tail(list))

\* acc += x, n times; n whole numbers add up exactly below 2^53
RECURSIVE FAddTimes(_, _, _)
FAddTimes(acc, x, n) ==
    IF n = 0 THEN acc
    ELSE IF IsWhole(acc) /\ IsWhole(x)
    THEN FloatOfNat(WholeValue(acc) + n * WholeValue(x))
    ELSE FAddTimes(FAdd(acc, x), x, n - 1)

\* AddGame for n equal records in a row
AddGames(p, gs, n) ==
    [p EXCEPT
        !.games_played = @ + n,
        !.wins = @ + (IF gs.won THEN n ELSE 0),
        !.kills = @ + n * gs.kills,
        !.deaths = @ + n * gs.deaths,
        !.assists = @ + n * gs.assists,
        !.total_gold = @ + n * gs.gold,
        !.total_cs = @ + n * gs.cs,
        !.total_damage = @ + n * gs.damage,
        !.total_minutes = FAddTimes(@, gs.game_length_minutes, n),
        !.role = IF Truthy(gs.role) THEN gs.role ELSE @,
        !.team = IF Truthy(gs.team) THEN gs.team ELSE @]

\* n iterations of "for gs in game_stats" on equal records
AggBlock(dict, gs, n) ==
    LET withKey == IF KeyIndex(dict, gs.player_name) = 0
                   THEN Append(dict, NewTotals(gs))
                   ELSE dict
        k == KeyIndex(withKey, gs.player_name)
    IN  [withKey EXCEPT ![k] = AddGames(@, gs, n)]

\* aggregate_player_stats on a long list
RECURSIVE AggBlocks(_, _)
AggBlocks(dict, list) ==
    IF list = <<>> THEN dict
    ELSE AggBlocks(AggBlock(dict, Head(list).item, Head(list).n), Tail(list))

-----------------------------------------------------------------------------
(* fetch_player_game_stats: the WHERE clause.  A condition is a group of   *)
(* LIKE patterns joined by OR, or one NOT LIKE pattern; a pattern is the   *)
(* sequence of the pieces its f-string puts together; the clause is the    *)
(* sequence of the conditions joined by AND.                               *)

\* the tournament labels asked for
Labels ==
    {"", " ", "LCK", "lck", "Lck", "LPL", "lpl", "LEC", "LCS", "lcs",
     "Worlds", "WORLDS", "worlds", "MSI", "msi", "VCS", "First Stand",
     "CBLOL", "Academy"}

\* the years asked for
Years == {"2024", "2025", "2026", "abc", ""}

\* str.upper() on the labels
Upper(label) ==
    CASE label \in {"lck", "Lck"} -> "LCK"
      [] label = "lpl" -> "LPL"
      [] label = "lcs" -> "LCS"
      [] label \in {"Worlds", "worlds"} -> "WORLDS"
      [] label = "msi" -> "MSI"
      [] label = "First Stand" -> "FIRST STAND"
      [] label = "Academy" -> "ACADEMY"
      [] OTHER -> label

\* the characters of a year
YearChars(y) ==
    CASE y = "2024" -> <<"2", "0", "2", "4">>
      [] y = "2025" -> <<"2", "0", "2", "5">>
      [] y = "2026" -> <<"2", "0", "2", "6">>
      [] y = "abc" -> <<"a", "b", "c">>
      [] OTHER -> <<>>

\* (SP.OverviewPage LIKE p1 OR SP.OverviewPage LIKE p2 ...)
AnyLike(patterns) == [neg |-> FALSE, patterns |-> patterns]
\* SP.OverviewPage NOT LIKE p
NotLike(pattern) == [neg |-> TRUE, patterns |-> <<pattern>>]

\* int(year) raises ValueError; it is evaluated only for the label LCS
YearRaises(label, y) == Upper(label) = "LCS" /\ ~IntOfStr(YearChars(y)).ok

\* the condition for a label without the branch of the renamed league
LabelConditionNoRename(label, y) ==
    IF label = "" THEN AnyLike(<<<<"%", y, "%">>>>)
    ELSE IF Upper(label) = "LCK"
    THEN AnyLike(<<<<"LCK/", y, "%">>, <<"LCK ", y, "%">>, <<"%LCK%Cup%", y, "%">>>>)
    ELSE IF Upper(label) = "LPL"
    THEN AnyLike(<<<<"LPL/", y, "%">>, <<"LPL ", y, "%">>>>)
    ELSE IF Upper(label) = "LEC"
    THEN AnyLike(<<<<"LEC/", y, "%">>, <<"LEC ", y, "%">>>>)
    ELSE IF Upper(label) = "WORLDS"
    THEN AnyLike(<<<<"%", y, "%Season%World%Championship%">>,
                   <<"%World%Championship%", y, "%">>,
                   <<"%Worlds%", y, "%">>,
                   <<"%", y, "%Worlds%">>>>)
    ELSE IF Upper(label) = "MSI"
    THEN AnyLike(<<<<"%", y, "%Mid%Season%Invitational%">>,
                   <<"%MSI%", y, "%">>,
                   <<"%", y, "%MSI%">>>>)
    ELSE AnyLike(<<<<"%", label, "%", y, "%">>, <<"%", label, "/", y, "%">>>>)

\* the condition appended for the label and the year
LabelCondition(label, y) ==
    IF label = "" THEN AnyLike(<<<<"%", y, "%">>>>)
    ELSE IF Upper(label) = "LCS" /\ IntOfStr(YearChars(y)).v >= 2025
    THEN AnyLike(<<<<"%LTA%", y, "%">>, <<"%LCS%", y, "%">>, <<"%Americas%", y, "%">>>>)
    ELSE IF Upper(label) = "LCK"
    THEN AnyLike(<<<<"LCK/", y, "%">>, <<"LCK ", y, "%">>, <<"%LCK%Cup%", y, "%">>>>)
    ELSE IF Upper(label) = "LPL"
    THEN AnyLike(<<<<"LPL/", y, "%">>, <<"LPL ", y, "%">>>>)
    ELSE IF Upper(label) = "LEC"
    THEN AnyLike(<<<<"LEC/", y, "%">>, <<"LEC ", y, "%">>>>)
    ELSE IF Upper(label) = "WORLDS"
    THEN AnyLike(<<<<"%", y, "%Season%World%Championship%">>,
                   <<"%World%Championship%", y, "%">>,
                   <<"%Worlds%", y, "%">>,
                   <<"%", y, "%Worlds%">>>>)
    ELSE IF Upper(label) = "MSI"
    THEN AnyLike(<<<<"%", y, "%Mid%Season%Invitational%">>,
                   <<"%MSI%", y, "%">>,
                   <<"%", y, "%MSI%">>>>)
    ELSE AnyLike(<<<<"%", label, "%", y, "%">>, <<"%", label, "/", y, "%">>>>)

\* tier2_exclusions
Tier2Patterns ==
    <<"%Academy%", "%Challengers%", "%Amateur%", "%CL%", "%LDL%", "%LTAN%",
      "%LTAS%", "%NLC%", "%Prime%League%", "%Ultraliga%", "%SuperLiga%",
      "%LFL%", "%LVP%", "%PCS%", "%VCS%", "%LJL%", "%LLA%", "%CBLOL%",
      "%LCO%", "%TCL%">>

\* a list of exclusions that holds none
NoExclusions == <<>>

tier2_exclusions == [i \in 1..Len(Tier2Patterns) |-> NotLike(<<Tier2Patterns[i]>>)]

\* a test of the label as it was written, upper case only
Tier2AppliesExactCase(label) == label # "" /\ label \notin {"WORLDS", "MSI"}

\* if tournament_filter and tournament_filter.upper() not in ["WORLDS", "MSI"]
Tier2Applies(label) == label # "" /\ Upper(label) \notin {"WORLDS", "MSI"}

\* the characters of a piece of a pattern: a literal of the f-strings, the
\* label or the year
PieceChars(piece) ==
    CASE piece = "%" -> <<"%">>
      [] piece = "/" -> <<"/">>
      [] piece = " " -> <<" ">>
      [] piece = "%LTA%" -> <<"%", "L", "T", "A", "%">>
      [] piece = "%LCS%" -> <<"%", "L", "C", "S", "%">>
      [] piece = "%Americas%" -> <<"%", "A", "m", "e", "r", "i", "c", "a", "s", "%">>
      [] piece = "LCK/" -> <<"L", "C", "K", "/">>
      [] piece = "LCK " -> <<"L", "C", "K", " ">>
      [] piece = "%LCK%Cup%" -> <<"%", "L", "C", "K", "%", "C", "u", "p", "%">>
      [] piece = "LPL/" -> <<"L", "P", "L", "/">>
      [] piece = "LPL " -> <<"L", "P", "L", " ">>
      [] piece = "LEC/" -> <<"L", "E", "C", "/">>
      [] piece = "LEC " -> <<"L", "E", "C", " ">>
      [] piece = "%Season%World%Championship%" -> <<"%", "S", "e", "a", "s", "o", "n", "%", "W", "o", "r", "l", "d", "%", "C", "h", "a", "m", "p", "i", "o", "n", "s", "h", "i", "p", "%">>
      [] piece = "%World%Championship%" -> <<"%", "W", "o", "r", "l", "d", "%", "C", "h", "a", "m", "p", "i", "o", "n", "s", "h", "i", "p", "%">>
      [] piece = "%Worlds%" -> <<"%", "W", "o", "r", "l", "d", "s", "%">>
      [] piece = "%Mid%Season%Invitational%" -> <<"%", "M", "i", "d", "%", "S", "e", "a", "s", "o", "n", "%", "I", "n", "v", "i", "t", "a", "t", "i", "o", "n", "a", "l", "%">>
      [] piece = "%MSI%" -> <<"%", "M", "S", "I", "%">>
      [] piece = "%Academy%" -> <<"%", "A", "c", "a", "d", "e", "m", "y", "%">>
      [] piece = "%Challengers%" -> <<"%", "C", "h", "a", "l", "l", "e", "n", "g", "e", "r", "s", "%">>
      [] piece = "%Amateur%" -> <<"%", "A", "m", "a", "t", "e", "u", "r", "%">>
      [] piece = "%CL%" -> <<"%", "C", "L", "%">>
      [] piece = "%LDL%" -> <<"%", "L", "D", "L", "%">>
      [] piece = "%LTAN%" -> <<"%", "L", "T", "A", "N", "%">>
      [] piece = "%LTAS%" -> <<"%", "L", "T", "A", "S", "%">>
      [] piece = "%NLC%" -> <<"%", "N", "L", "C", "%">>
      [] piece = "%Prime%League%" -> <<"%", "P", "r", "i", "m", "e", "%", "L", "e", "a", "g", "u", "e", "%">>
      [] piece = "%Ultraliga%" -> <<"%", "U", "l", "t", "r", "a", "l", "i", "g", "a", "%">>
      [] piece = "%SuperLiga%" -> <<"%", "S", "u", "p", "e", "r", "L", "i", "g", "a", "%">>
      [] piece = "%LFL%" -> <<"%", "L", "F", "L", "%">>
      [] piece = "%LVP%" -> <<"%", "L", "V", "P", "%">>
      [] piece = "%PCS%" -> <<"%", "P", "C", "S", "%">>
      [] piece = "%VCS%" -> <<"%", "V", "C", "S", "%">>
      [] piece = "%LJL%" -> <<"%", "L", "J", "L", "%">>
      [] piece = "%LLA%" -> <<"%", "L", "L", "A", "%">>
      [] piece = "%CBLOL%" -> <<"%", "C", "B", "L", "O", "L", "%">>
      [] piece = "%LCO%" -> <<"%", "L", "C", "O", "%">>
      [] piece = "%TCL%" -> <<"%", "T", "C", "L", "%">>
      [] piece = "LCK" -> <<"L", "C", "K">>
      [] piece = "lck" -> <<"l", "c", "k">>
      [] piece = "Lck" -> <<"L", "c", "k">>
      [] piece = "LPL" -> <<"L", "P", "L">>
      [] piece = "lpl" -> <<"l", "p", "l">>
      [] piece = "LEC" -> <<"L", "E", "C">>
      [] piece = "LCS" -> <<"L", "C", "S">>
      [] piece = "lcs" -> <<"l", "c", "s">>
      [] piece = "Worlds" -> <<"W", "o", "r", "l", "d", "s">>
      [] piece = "WORLDS" -> <<"W", "O", "R", "L", "D", "S">>
      [] piece = "worlds" -> <<"w", "o", "r", "l", "d", "s">>
      [] piece = "MSI" -> <<"M", "S", "I">>
      [] piece = "msi" -> <<"m", "s", "i">>
      [] piece = "VCS" -> <<"V", "C", "S">>
      [] piece = "First Stand" -> <<"F", "i", "r", "s", "t", " ", "S", "t", "a", "n", "d">>
      [] piece = "CBLOL" -> <<"C", "B", "L", "O", "L">>
      [] piece = "Academy" -> <<"A", "c", "a", "d", "e", "m", "y">>
      [] OTHER -> YearChars(piece)

\* the pattern the f-string puts together, as its characters
RECURSIVE PatternChars(_)
PatternChars(pattern) ==
    IF pattern = <<>> THEN <<>>
    ELSE PieceChars(Head(pattern)) \o PatternChars(Tail(pattern))

\* name LIKE pattern: % stands for any run of characters, every other
\* character for itself
RECURSIVE Like(_, _)
Like(name, pattern) ==
    IF pattern = <<>> THEN name = <<>>
    ELSE IF Head(pattern) = "%"
    THEN \E k \in 0..Len(name) : Like(SubSeq(name, k + 1, Len(name)), Tail(pattern))
    ELSE /\ name # <<>>
         /\ Head(name) = Head(pattern)
         /\ Like(Tail(name), Tail(pattern))

\* one condition of the clause on a page name
Holds(cond, name) ==
    LET any == \E i \in 1..Len(cond.patterns) :
                    Like(name, PatternChars(cond.patterns[i]))
    IN  IF cond.neg THEN ~any ELSE any

\* the clause, its conditions joined by AND, on a page name
Accepts(parts, name) == \A i \in 1..Len(parts) : Holds(parts[i], name)

FilterIdle ==
    /\ tournament_filter = ""
    /\ year = "2025"
    /\ where_parts = <<>>
    /\ filter_pc = "idle"

FilterInit ==
    /\ tournament_filter \in Labels
    /\ year \in Years
    /\ where_parts = <<>>
    /\ filter_pc = "label"

\* the if/elif chain on the label
FilterLabel ==
    /\ filter_pc = "label"
    /\ IF tournament_filter # "" /\ YearRaises(tournament_filter, year)
       THEN filter_pc' = "raised" /\ UNCHANGED where_parts
       ELSE /\ where_parts' = Append(where_parts, LabelCondition(tournament_filter, year))
            /\ filter_pc' = "tier"
    /\ UNCHANGED <<tournament_filter, year, filter_frame>>

\* where_parts.extend(tier2_exclusions) for the regional labels
FilterTier ==
    /\ filter_pc = "tier"
    /\ where_parts' = IF Tier2Applies(tournament_filter)
                      THEN where_parts \o tier2_exclusions
                      ELSE where_parts
    /\ filter_pc' = "join"
    /\ UNCHANGED <<tournament_filter, year, filter_frame>>

\* where_clause = " AND ".join(where_parts), handed to _cargo_query_all
FilterJoin ==
    /\ filter_pc = "join"
    /\ filter_pc' = "done"
    /\ UNCHANGED <<tournament_filter, year, where_parts, filter_frame>>

FilterNext == FilterLabel \/ FilterTier \/ FilterJoin

-----------------------------------------------------------------------------
(* The upstream source, as the client sees it *)

\* the clause fetch_player_game_stats hands to _cargo_query_all
WhereClause(label, y) ==
    <<LabelCondition(label, y)>>
        \o (IF Tier2Applies(label) THEN tier2_exclusions ELSE <<>>)

\* the overview pages the source has games for: a season of LCS, LTA North,
\* LCK, LCK CL, VCS, CBLOL and CBLOL Academy, and a world championship
OverviewPages ==
    {<<"L", "C", "S", "/", "2", "0", "2", "5", " ", "S", "e", "a", "s", "o", "n">>,
     <<"L", "T", "A", " ", "N", "o", "r", "t", "h", "/", "2", "0", "2", "5", " ", "S", "e", "a", "s", "o", "n">>,
     <<"L", "C", "K", "/", "2", "0", "2", "5", " ", "S", "e", "a", "s", "o", "n">>,
     <<"L", "C", "K", " ", "C", "L", "/", "2", "0", "2", "5", " ", "S", "e", "a", "s", "o", "n">>,
     <<"V", "C", "S", "/", "2", "0", "2", "5", " ", "S", "e", "a", "s", "o", "n">>,
     <<"C", "B", "L", "O", "L", "/", "2", "0", "2", "5", " ", "S", "e", "a", "s", "o", "n">>,
     <<"C", "B", "L", "O", "L", " ", "A", "c", "a", "d", "e", "m", "y", "/", "2", "0", "2", "5", " ", "S", "e", "a", "s", "o", "n">>,
     <<"2", "0", "2", "5", " ", "S", "e", "a", "s", "o", "n", " ", "W", "o", "r", "l", "d", " ", "C", "h", "a", "m", "p", "i", "o", "n", "s", "h", "i", "p">>}

\* whether the source has a row for the clause
HasRows(label, y) == \E name \in OverviewPages : Accepts(WhereClause(label, y), name)

NoLinkRow == [BaseRow EXCEPT !["Link"] = EmptyStr]
NullWinRow == [BaseRow EXCEPT !["PlayerWin"] = None]

\* what one cargo query may answer with: no row, a few rows, rows that the
\* normalisation drops, a page one short of full, a full page, and a page
\* longer than asked for
Pages ==
    {<<>>,
     <<Block(FakerWin, 1), Block(FakerLoss, 1)>>,
     <<Block(ChovyGame, 1)>>,
     <<Block(NoLinkRow, 1)>>,
     <<Block(NullWinRow, 1)>>,
     <<Block(ChovyGame, API_MAX_LIMIT - 1)>>,
     <<Block(FakerWin, API_MAX_LIMIT)>>,
     <<Block(FakerWin, API_MAX_LIMIT + 1)>>}

\* the answers to one cargo query request
Answers ==
    [kind : {"rows"}, rows : Pages, ratelimit_text : {FALSE}] \cup
    [kind : {"ratelimited", "transport"}, rows : {<<>>}, ratelimit_text : {FALSE}] \cup
    [kind : {"api_error"}, rows : {<<>>}, ratelimit_text : BOOLEAN]

-----------------------------------------------------------------------------
(* PlayerService.import_from_leaguepedia *)

\* an exception: what raised it, and whether its text holds "ratelimit"
Exc(kind, ratelimit_text) == [kind |-> kind, ratelimit_text |-> ratelimit_text]

Returned(imported, games, error) ==
    [raised |-> FALSE, imported |-> imported, games |-> games, error |-> error]

Pending == Returned(0, 0, "Pending")

\* an except clause for the client's own errors only: any other exception
\* leaves the method
ImportExceptClientOnly(exc) ==
    IF exc.kind \in {"api", "transport"}
    THEN IF exc.ratelimit_text
         THEN Returned(0, 0, "RateLimit")
         ELSE Returned(0, 0, "ImportFailed")
    ELSE [raised |-> TRUE, imported |-> 0, games |-> 0, error |-> "None"]

\* the except clause: every Exception becomes an outcome
ImportExcept(exc) ==
    IF exc.ratelimit_text
    THEN Returned(0, 0, "RateLimit")
    ELSE Returned(0, 0, "ImportFailed")

\* the /import route: "if error:" answers 400, success false
RouteResponse(out) ==
    IF out.error # "None"
    THEN [success |-> FALSE, status |-> 400]
    ELSE [success |-> TRUE, status |-> 200]

\* whether a call of the progress observer raises
ObserverRaises == IF observer = "faulty" THEN BOOLEAN ELSE {FALSE}

\* the players table when the run starts: empty, or holding Faker already
OldFaker == aggregate_player_stats(NormalizeAll(<<FakerLoss>>))[1]

\* the labels and years an import is asked for: the renamed league, a
\* recognized label, a free-text label; a year and a text that is none
ScopeLabels == {"LCS", "LCK", "VCS"}
ScopeYears == {"2025", "abc"}

ImportIdle ==
    /\ pc = "off"
    /\ scope = [label |-> "", year |-> "2025", has_rows |-> FALSE]
    /\ observer = "none"
    /\ is_logged_in = FALSE
    /\ offset = 0
    /\ all_results = <<>>
    /\ attempt = 0
    /\ query_failed = FALSE
    /\ page_log = <<>>
    /\ fetch_result = <<>>
    /\ fetched = FALSE
    /\ import_stats = <<>>
    /\ aggregated = <<>>
    /\ save_i = 0
    /\ imported_count = 0
    /\ outcome = Pending

ImportInit ==
    /\ pc = "idle"
    /\ scope \in {[label |-> l, year |-> y, has_rows |-> HasRows(l, y)] :
                    l \in ScopeLabels, y \in ScopeYears}
    /\ observer \in {"none", "quiet", "faulty"}
    /\ is_logged_in = FALSE
    /\ offset = 0
    /\ all_results = <<>>
    /\ attempt = 0
    /\ query_failed = FALSE
    /\ page_log = <<>>
    /\ fetch_result = <<>>
    /\ fetched = FALSE
    /\ import_stats = <<>>
    /\ aggregated = <<>>
    /\ save_i = 0
    /\ imported_count = 0
    /\ outcome = Pending
    /\ \E pre \in {{}, {RowOf(1, OldFaker, 0)}} :
        /\ table = pre
        /\ seq_id = Cardinality(pre)
        /\ table_prev = pre
    /\ clock = 1
    /\ last_op = NoOp
    /\ prev_op = NoOp

\* the run ends in the except clause
Fail(exc) ==
    /\ pc' = "done"
    /\ outcome' = ImportExcept(exc)

\* _cargo_query is entered: login() first when logged out
BeginCargoQuery ==
    /\ pc' = IF is_logged_in THEN "attempt" ELSE "login1"
    /\ attempt' = 0

\* an import that clears the players table before it fetches
ImportBeginClearing ==
    /\ pc = "idle"
    /\ \E raises \in ObserverRaises :
        IF raises
        THEN Fail(Exc("observer", FALSE)) /\ UNCHANGED <<attempt>>
        ELSE IF YearRaises(scope.label, scope.year)
        THEN Fail(Exc("value", FALSE)) /\ UNCHANGED <<attempt>>
        ELSE BeginCargoQuery /\ UNCHANGED outcome
    /\ table' = {}
    /\ UNCHANGED <<scope, observer, is_logged_in, offset, all_results, query_failed,
                   page_log, fetch_result, fetched, import_stats, aggregated, save_i,
                   imported_count, seq_id, clock, table_prev, last_op, prev_op,
                   import_frame>>

\* the first observer call, the filter (int(year) for the label LCS) and the
\* entry into _cargo_query_all
ImportBegin ==
    /\ pc = "idle"
    /\ \E raises \in ObserverRaises :
        IF raises
        THEN Fail(Exc("observer", FALSE)) /\ UNCHANGED <<attempt>>
        ELSE IF YearRaises(scope.label, scope.year)
        THEN Fail(Exc("value", FALSE)) /\ UNCHANGED <<attempt>>
        ELSE BeginCargoQuery /\ UNCHANGED outcome
    /\ UNCHANGED <<scope, observer, is_logged_in, offset, all_results, query_failed,
                   page_log, fetch_result, fetched, import_stats, aggregated, save_i,
                   imported_count, store_vars, import_frame>>

\* login(), step 1: the token request
LoginToken ==
    /\ pc = "login1"
    /\ \E answer \in {"token", "no_token", "error"} :
        pc' = IF answer = "token" THEN "login2" ELSE "attempt"
    /\ UNCHANGED <<scope, observer, is_logged_in, offset, all_results, attempt,
                   query_failed, page_log, fetch_result, fetched, import_stats,
                   aggregated, save_i, imported_count, outcome, store_vars,
                   import_frame>>

\* login(), step 2: the credentials are posted
LoginSubmit ==
    /\ pc = "login2"
    /\ \E answer \in {"Success", "Failed", "error"} :
        is_logged_in' = (answer = "Success")
    /\ pc' = "attempt"
    /\ UNCHANGED <<scope, observer, offset, all_results, attempt,
                   query_failed, page_log, fetch_result, fetched, import_stats,
                   aggregated, save_i, imported_count, outcome, store_vars,
                   import_frame>>

\* what the observer is called with after a page, -1 when there is none
ObserverTold(all) == IF observer = "none" THEN 0 - 1 ELSE ListLen(all)

\* the stop test on short pages only
StopOnShortPage(page, all) == ListLen(page) < API_MAX_LIMIT

\* the stop test on the cap only
StopWhenCapped(page, all) == ListLen(all) >= max_results

\* the stop test of the pagination loop
StopPaging(page, all) ==
    ListLen(page) < API_MAX_LIMIT \/ ListLen(all) >= max_results

\* _cargo_query_all after _cargo_query returned page: extend, observer, the
\* stop test, and either the next page's query or the truncated return
PageReturned(page) ==
    LET all == Extend(all_results, page)
    IN  /\ all_results' = all
        /\ page_log' = Append(page_log, [offset |-> offset,
                                         rows |-> page,
                                         told |-> ObserverTold(all)])
        /\ \E raises \in ObserverRaises :
            IF raises
            THEN /\ Fail(Exc("observer", FALSE))
                 /\ UNCHANGED <<offset, attempt, fetch_result>>
            ELSE IF StopPaging(page, all)
            THEN /\ fetch_result' = Take(all, max_results)
                 /\ pc' = "process"
                 /\ UNCHANGED <<offset, attempt, outcome>>
            ELSE /\ offset' = offset + API_MAX_LIMIT
                 /\ BeginCargoQuery
                 /\ UNCHANGED <<fetch_result, outcome>>

\* one attempt of the retry loop of _cargo_query: the request and what
\* follows from its answer
QueryAttempt ==
    /\ pc = "attempt"
    /\ \E answer \in Answers :
        CASE answer.kind = "rows" ->
                /\ scope.has_rows \/ answer.rows = <<>>
                /\ PageReturned(answer.rows)
                /\ UNCHANGED query_failed
          [] answer.kind = "ratelimited" ->
                IF attempt + 1 < API_MAX_RETRIES
                THEN /\ attempt' = attempt + 1
                     /\ UNCHANGED <<pc, offset, all_results, query_failed,
                                    page_log, fetch_result, outcome>>
                ELSE /\ query_failed' = TRUE
                     /\ PageReturned(<<>>)
          [] answer.kind = "api_error" ->
                /\ Fail(Exc("api", answer.ratelimit_text))
                /\ query_failed' = TRUE
                /\ UNCHANGED <<offset, all_results, attempt, page_log,
                               fetch_result>>
          [] answer.kind = "transport" ->
                IF attempt < API_MAX_RETRIES - 1
                THEN /\ attempt' = attempt + 1
                     /\ UNCHANGED <<pc, offset, all_results, query_failed,
                                    page_log, fetch_result, outcome>>
                ELSE /\ Fail(Exc("transport", FALSE))
                     /\ query_failed' = TRUE
                     /\ UNCHANGED <<offset, all_results, attempt, page_log,
                                    fetch_result>>
    /\ UNCHANGED <<scope, observer, is_logged_in, fetched, import_stats, aggregated,
                   save_i, imported_count, store_vars, import_frame>>

\* fetch_player_game_stats normalises the rows; the import returns at once on
\* zero records, else calls the observer, aggregates, calls the observer
Process ==
    /\ pc = "process"
    /\ LET stats == NormalizeBlocks(fetch_result)
       IN  /\ import_stats' = stats
           /\ fetched' = TRUE
           /\ IF ListLen(stats) = 0
              THEN /\ pc' = "done"
                   /\ outcome' = Returned(0, 0, "NoData")
                   /\ UNCHANGED aggregated
              ELSE \E raises1 \in ObserverRaises, raises2 \in ObserverRaises :
                    IF raises1
                    THEN Fail(Exc("observer", FALSE)) /\ UNCHANGED aggregated
                    ELSE /\ aggregated' = AggBlocks(<<>>, stats)
                         /\ IF raises2
                            THEN Fail(Exc("observer", FALSE))
                            ELSE pc' = "save" /\ UNCHANGED outcome
    /\ UNCHANGED <<scope, observer, fetch_result, save_i, imported_count,
                   client_vars, store_vars, import_frame>>

\* one iteration of the save loop: upsert, the count, every tenth observer call
SaveOne ==
    /\ pc = "save"
    /\ save_i < Len(aggregated)
    /\ \E sqlite \in {"ok", "error", "raise"}, raises \in ObserverRaises :
        LET p == aggregated[save_i + 1]
            res == IF sqlite = "ok" THEN RepoUpsert(Db, p, clock)
                   ELSE [rows |-> table, seq |-> seq_id, ok |-> FALSE]
        IN  IF sqlite = "raise"
            THEN /\ Fail(Exc("store", FALSE))
                 /\ UNCHANGED <<save_i, imported_count, table, seq_id, table_prev,
                                last_op, prev_op>>
            ELSE /\ table' = res.rows
                 /\ seq_id' = res.seq
                 /\ table_prev' = table
                 /\ prev_op' = last_op
                 /\ last_op' = [op |-> "upsert", p |-> p, id |-> 0, ok |-> res.ok,
                                 now |-> clock]
                 /\ imported_count' = imported_count + (IF res.ok THEN 1 ELSE 0)
                 /\ save_i' = save_i + 1
                 /\ IF (save_i + 1) % 10 = 0 /\ raises
                    THEN Fail(Exc("observer", FALSE))
                    ELSE UNCHANGED <<pc, outcome>>
    /\ UNCHANGED <<scope, observer, fetch_result, fetched, import_stats, aggregated,
                   clock, client_vars, import_frame>>

\* after the loop: the last observer call and the return
Finish ==
    /\ pc = "save"
    /\ save_i = Len(aggregated)
    /\ \E raises \in ObserverRaises :
        IF raises
        THEN Fail(Exc("observer", FALSE))
        ELSE /\ pc' = "done"
             /\ outcome' = Returned(imported_count, ListLen(import_stats), "None")
    /\ UNCHANGED <<scope, observer, fetch_result, fetched, import_stats, aggregated,
                   save_i, imported_count, client_vars, store_vars, import_frame>>

ImportNext ==
    \/ ImportBegin
    \/ LoginToken
    \/ LoginSubmit
    \/ QueryAttempt
    \/ Process
    \/ SaveOne
    \/ Finish

-----------------------------------------------------------------------------
(* One LeaguepediaClient over time.  Time is counted in tenths of a second *)
(* and passes while the client sleeps, while a request is under way and    *)
(* between operations; elapsed is the time since last_request_time, kept   *)
(* up to the delay, beyond which _rate_limit does not tell times apart.    *)

\* a _rate_limit that never sleeps
NoRateLimitSleep(e) == 0

\* _rate_limit: the time slept when e has elapsed since last_request_time
RateLimitSleep(e) == IF e < API_REQUEST_DELAY THEN API_REQUEST_DELAY - e ELSE 0

\* no request was sent yet
NoRequest == [n |-> 0, elapsed |-> 0, slept |-> 0, gap |-> 0]

\* _rate_limit() and the request after it: n counts the requests up to 2,
\* gap is the time since the request before, up to the delay
Request ==
    LET slept == RateLimitSleep(elapsed)
        gap == IF elapsed + slept < API_REQUEST_DELAY
               THEN elapsed + slept
               ELSE API_REQUEST_DELAY
    IN  [n |-> IF last_request.n = 0 THEN 1 ELSE 2,
         elapsed |-> elapsed, slept |-> slept, gap |-> gap]

\* the retry loop with a wait of 3 seconds after every transport failure
AfterAnswerFlatWait(a, kind) ==
    CASE kind \in {"rows_full", "rows_short"} -> [next |-> "return", wait |-> 0]
      [] kind = "ratelimited" ->
            [next |-> IF a + 1 < API_MAX_RETRIES THEN "retry" ELSE "return_empty",
             wait |-> 5 * (a + 1)]
      [] kind = "api_error" -> [next |-> "raise", wait |-> 0]
      [] kind = "transport" ->
            IF a < API_MAX_RETRIES - 1
            THEN [next |-> "retry", wait |-> 3]
            ELSE [next |-> "raise", wait |-> 0]

\* the retry loop taking a server-reported error for a transport failure
AfterAnswerRetryAll(a, kind) ==
    CASE kind \in {"rows_full", "rows_short"} -> [next |-> "return", wait |-> 0]
      [] kind = "ratelimited" ->
            [next |-> IF a + 1 < API_MAX_RETRIES THEN "retry" ELSE "return_empty",
             wait |-> 5 * (a + 1)]
      [] kind \in {"api_error", "transport"} ->
            IF a < API_MAX_RETRIES - 1
            THEN [next |-> "retry", wait |-> 3 * (a + 1)]
            ELSE [next |-> "raise", wait |-> 0]

\* _cargo_query, attempt a of "for attempt in range(API_MAX_RETRIES)" after
\* the answer kind: what the loop does next and the seconds it sleeps first
AfterAnswer(a, kind) ==
    CASE kind \in {"rows_full", "rows_short"} -> [next |-> "return", wait |-> 0]
      [] kind = "ratelimited" ->
            [next |-> IF a + 1 < API_MAX_RETRIES THEN "retry" ELSE "return_empty",
             wait |-> 5 * (a + 1)]
      [] kind = "api_error" -> [next |-> "raise", wait |-> 0]
      [] kind = "transport" ->
            IF a < API_MAX_RETRIES - 1
            THEN [next |-> "retry", wait |-> 3 * (a + 1)]
            ELSE [next |-> "raise", wait |-> 0]

\* a login() that goes through the handshake whatever the flag says
NeverLoggedIn == FALSE

\* login(): if self.is_logged_in: return True
AlreadyLoggedIn == is_logged_in

\* a login that takes every answered submission for a success
LoginAnswered(result) == result # "error"

\* login(): if login_result == "Success"
LoginSucceeded(result) == result = "Success"

NoLogin ==
    [entered_logged_in |-> FALSE, sent |-> 0, token |-> "none", submit |-> "none",
     ret |-> "none"]

SessionIdle ==
    /\ cl_pc = "off"
    /\ cl_op = "none"
    /\ elapsed = API_REQUEST_DELAY
    /\ last_request = NoRequest
    /\ answers = <<>>
    /\ waits = <<>>
    /\ cq_result = "none"
    /\ qa_result = "none"
    /\ login_log = NoLogin

\* __init__: last_request_time = 0, long ago; is_logged_in = False
SessionInit ==
    /\ cl_pc = "ready"
    /\ cl_op = "none"
    /\ elapsed = API_REQUEST_DELAY
    /\ last_request = NoRequest
    /\ answers = <<>>
    /\ waits = <<>>
    /\ cq_result = "none"
    /\ qa_result = "none"
    /\ login_log = NoLogin

\* a tenth of a second passes
Elapse ==
    /\ cl_pc # "off"
    /\ elapsed < API_REQUEST_DELAY
    /\ elapsed' = elapsed + 1
    /\ UNCHANGED <<cl_pc, cl_op, last_request, answers, waits, cq_result, qa_result,
                   login_log, is_logged_in, offset, attempt, session_frame>>

\* login() is entered from the operation op
EnterLogin(op) ==
    /\ login_log' = [NoLogin EXCEPT !.entered_logged_in = is_logged_in,
                                    !.ret = IF AlreadyLoggedIn THEN "True" ELSE "none"]
    /\ cl_pc' = IF AlreadyLoggedIn
                THEN (IF op = "login" THEN "ready" ELSE "attempt")
                ELSE "token"

\* login() is called on the client
CallLogin ==
    /\ cl_pc = "ready"
    /\ cl_op' = "login"
    /\ EnterLogin("login")
    /\ UNCHANGED <<elapsed, last_request, answers, waits, cq_result, qa_result,
                   is_logged_in, offset, attempt, session_frame>>

\* login(), step 1: _rate_limit, the token request and its answer
TokenStep ==
    /\ cl_pc = "token"
    /\ last_request' = Request
    /\ elapsed' = 0
    /\ \E answer \in {"token", "no_token", "error"} :
        /\ login_log' = [login_log EXCEPT
                            !.sent = @ + 1,
                            !.token = answer,
                            !.ret = IF answer = "token" THEN "none" ELSE "False"]
        /\ cl_pc' = IF answer = "token" THEN "submit"
                    ELSE IF cl_op = "login" THEN "ready"
                    ELSE "attempt"
    /\ UNCHANGED <<cl_op, answers, waits, cq_result, qa_result, is_logged_in,
                   offset, attempt, session_frame>>

\* login(), step 2: _rate_limit, the credentials posted and the answer
SubmitStep ==
    /\ cl_pc = "submit"
    /\ last_request' = Request
    /\ elapsed' = 0
    /\ \E answer \in {"Success", "Failed", "error"} :
        /\ is_logged_in' = LoginSucceeded(answer)
        /\ cl_pc' = IF cl_op = "login" THEN "ready" ELSE "attempt"
        /\ login_log' = [login_log EXCEPT
                            !.sent = @ + 1,
                            !.submit = answer,
                            !.ret = IF LoginSucceeded(answer) THEN "True" ELSE "False"]
    /\ UNCHANGED <<cl_op, answers, waits, cq_result, qa_result, offset, attempt,
                   session_frame>>

\* a _cargo_query that leaves the login out once a login() was tried
EnterCargoQueryLoginOnce ==
    /\ attempt' = 0
    /\ answers' = <<>>
    /\ waits' = <<>>
    /\ cq_result' = "running"
    /\ IF is_logged_in \/ login_log.sent > 0
       THEN cl_pc' = "attempt" /\ UNCHANGED login_log
       ELSE EnterLogin("query_all")

\* _cargo_query is entered for the page at offset: login() first when
\* logged out, then the retry loop
EnterCargoQuery ==
    /\ attempt' = 0
    /\ answers' = <<>>
    /\ waits' = <<>>
    /\ cq_result' = "running"
    /\ IF is_logged_in
       THEN cl_pc' = "attempt" /\ UNCHANGED login_log
       ELSE EnterLogin("query_all")

\* _cargo_query_all is called on the client
CallQueryAll ==
    /\ cl_pc = "ready"
    /\ cl_op' = "query_all"
    /\ offset' = 0
    /\ qa_result' = "running"
    /\ EnterCargoQuery
    /\ UNCHANGED <<elapsed, last_request, is_logged_in, session_frame>>

\* one attempt of _cargo_query: _rate_limit, the request, its answer, and
\* what _cargo_query and _cargo_query_all do with it
Attempt ==
    /\ cl_pc = "attempt"
    /\ last_request' = Request
    /\ \E kind \in {"rows_full", "rows_short", "ratelimited", "api_error", "transport"} :
        LET after == AfterAnswer(attempt, kind)
            more == kind = "rows_full" /\ offset + API_MAX_LIMIT < max_results
        IN  /\ elapsed' = IF after.wait > 0 THEN API_REQUEST_DELAY ELSE 0
            /\ IF after.next = "retry"
               THEN /\ answers' = Append(answers, kind)
                    /\ waits' = Append(waits, after.wait)
                    /\ attempt' = attempt + 1
                    /\ UNCHANGED <<cl_pc, cq_result, qa_result, offset, login_log>>
               ELSE IF after.next = "return" /\ more
               THEN /\ offset' = offset + API_MAX_LIMIT
                    /\ EnterCargoQuery
                    /\ UNCHANGED qa_result
               ELSE /\ answers' = Append(answers, kind)
                    /\ waits' = IF after.wait > 0 THEN Append(waits, after.wait) ELSE waits
                    /\ cq_result' = CASE after.next = "return" -> "rows"
                                      [] after.next = "return_empty" -> "empty"
                                      [] OTHER -> kind
                    /\ qa_result' = IF after.next = "raise" THEN "raised" ELSE "returned"
                    /\ cl_pc' = "ready"
                    /\ UNCHANGED <<attempt, offset, login_log>>
    /\ UNCHANGED <<cl_op, is_logged_in, session_frame>>

\* an image lookup: _rate_limit and one request, whatever it answers
ImageLookup ==
    /\ cl_pc = "ready"
    /\ cl_op' = "image"
    /\ last_request' = Request
    /\ elapsed' = 0
    /\ UNCHANGED <<cl_pc, answers, waits, cq_result, qa_result, login_log,
                   is_logged_in, offset, attempt, session_frame>>

SessionNext ==
    \/ Elapse
    \/ CallLogin
    \/ TokenStep
    \/ SubmitStep
    \/ CallQueryAll
    \/ Attempt
    \/ ImageLookup

-----------------------------------------------------------------------------
(* The derived statistics of a Player *)

DerivedIdle ==
    /\ totals = <<>>
    /\ derived = <<>>
    /\ derived_pc = "idle"

RECURSIVE GCD(_, _)
GCD(a, b) == IF b = 0 THEN a ELSE GCD(b, a % b)
Abs(n) == IF n < 0 THEN 0 - n ELSE n
Max(a, b) == IF a >= b THEN a ELSE b

\* what a division by zero leaves in place of a value
ZeroDivisionError == [num |-> 0, den |-> 0]

\* n / d of Python, as the exact quotient in lowest terms with a positive
\* denominator (the rounding of the quotient to binary64 is left out)
TrueDiv(n, d) ==
    IF d = 0 THEN ZeroDivisionError
    ELSE LET g == GCD(Abs(n), Abs(d))
             sign == IF d < 0 THEN 0 - 1 ELSE 1
         IN  [num |-> (sign * n) \div g, den |-> (sign * d) \div g]

\* q * k for a quotient q and an integer k
Times(q, k) == IF q.den = 0 THEN q ELSE TrueDiv(q.num * k, q.den)

\* the literal 0.0
ZeroFloat == TrueDiv(0, 1)

\* a float that is a multiple of one half, counted in halves
HalfMinutes(x) == x.top * 512 + x.hi \div 2^19

\* n / x for an integer n and such a float x
DivByFloat(n, x) == TrueDiv(2 * n, HalfMinutes(x))

win_rate(p) ==
    IF p.games_played = 0 THEN ZeroFloat
    ELSE Times(TrueDiv(p.wins, p.games_played), 100)

\* kda with the deaths as they are
KdaByDeaths(p) == TrueDiv(p.kills + p.assists, p.deaths)

kda(p) ==
    LET deaths == Max(p.deaths, 1)
    IN  TrueDiv(p.kills + p.assists, deaths)

gold_per_min(p) ==
    IF p.total_minutes = FZero THEN ZeroFloat
    ELSE DivByFloat(p.total_gold, p.total_minutes)

cs_per_min(p) ==
    IF p.total_minutes = FZero THEN ZeroFloat
    ELSE DivByFloat(p.total_cs, p.total_minutes)

dmg_per_min(p) ==
    IF p.total_minutes = FZero THEN ZeroFloat
    ELSE DivByFloat(p.total_damage, p.total_minutes)

avg_kills(p) ==
    IF p.games_played = 0 THEN ZeroFloat ELSE TrueDiv(p.kills, p.games_played)

avg_deaths(p) ==
    IF p.games_played = 0 THEN ZeroFloat ELSE TrueDiv(p.deaths, p.games_played)

avg_assists(p) ==
    IF p.games_played = 0 THEN ZeroFloat ELSE TrueDiv(p.assists, p.games_played)

\* the totals a Player is built with: zero and non-zero denominators, a
\* wins count above the games, deaths below one, whole and half minutes
PlayerTotals ==
    [games_played : {0, 1, 3},
     wins : {0, 1, 2},
     kills : {0, 7},
     deaths : {0 - 1, 0, 1, 4},
     assists : {0, 5},
     total_gold : {0, 15000},
     total_cs : {250},
     total_damage : {25000},
     total_minutes : {FZero, FloatOfNat(30), FloatVal(0, 123 * 2^19, 0)}]

DerivedInit ==
    /\ totals \in PlayerTotals
    /\ derived = <<>>
    /\ derived_pc = "built"

\* every property of the Player is read once
ReadProperties ==
    /\ derived_pc = "built"
    /\ derived' = [win_rate |-> win_rate(totals),
                   kda |-> kda(totals),
                   gold_per_min |-> gold_per_min(totals),
                   cs_per_min |-> cs_per_min(totals),
                   dmg_per_min |-> dmg_per_min(totals),
                   avg_kills |-> avg_kills(totals),
                   avg_deaths |-> avg_deaths(totals),
                   avg_assists |-> avg_assists(totals)]
    /\ derived_pc' = "read"
    /\ UNCHANGED <<totals, derived_frame>>

DerivedNext ==
    \/ ReadProperties

-----------------------------------------------------------------------------
(* search_player_image: the prefix searches of the file-name index, the   *)
(* filters and the score of every image, and the fallback search.         *)
(* An image is a record [name, timestamp] of character sequences.         *)

\* "sub in s" of Python
Contains(s, sub) ==
    \E i \in 1..(Len(s) - Len(sub) + 1) : SubSeq(s, i, i + Len(sub) - 1) = sub

\* s.endswith(suffix)
EndsWith(s, suffix) ==
    /\ Len(suffix) <= Len(s)
    /\ SubSeq(s, Len(s) - Len(suffix) + 1, Len(s)) = suffix

\* s.startswith(prefix)
StartsWith(s, prefix) == Len(prefix) <= Len(s) /\ SubSeq(s, 1, Len(prefix)) = prefix

\* s.replace(" ", "_")
SpacesToUnderscores(s) == [i \in 1..Len(s) |-> IF s[i] = " " THEN "_" ELSE s[i]]

\* s.replace(".", "")
WithoutDots(s) == SelectSeq(s, LAMBDA c : c # ".")

image_extensions ==
    <<<<".", "p", "n", "g">>, <<".", "j", "p", "g">>, <<".", "j", "p", "e", "g">>,
      <<".", "w", "e", "b", "p">>>>

skip_patterns ==
    <<<<"l", "o", "g", "o">>,
      <<"i", "c", "o", "n">>,
      <<"b", "a", "n", "n", "e", "r">>,
      <<"e", "m", "o", "t", "e">>,
      <<"a", "l", "l", "s", "t", "a", "r">>,
      <<"s", "i", "g", "n", "a", "t", "u", "r", "e">>,
      <<"s", "t", "i", "c", "k", "e", "r">>,
      <<"s", "p", "l", "i", "t">>,
      <<"t", "r", "o", "p", "h", "y">>,
      <<"m", "v", "p">>,
      <<"c", "h", "a", "m", "p", "i", "o", "n", "s", "h", "i", "p">>,
      <<"t", "e", "a", "m">>,
      <<"r", "o", "s", "t", "e", "r">>,
      <<"g", "r", "o", "u", "p">>,
      <<"c", "e", "l", "e", "b", "r", "a", "t", "i", "o", "n">>,
      <<"s", "t", "a", "g", "e">>,
      <<"i", "n", "t", "e", "r", "v", "i", "e", "w">>,
      <<"s", "q", "u", "a", "r", "e">>,
      <<"i", "n", "f", "o", "b", "o", "x">>,
      <<"t", "a", "b">>,
      <<"h", "e", "a", "d", "e", "r">>>>

recent_years == <<<<"2", "0", "2", "5">>, <<"2", "0", "2", "4">>, <<"2", "0", "2", "3">>>>

\* the three filters of the loop: an image file, no denylisted keyword, the
\* player's name in the file name
PassesFilters(img, player_name) ==
    LET img_name == Lower(img.name)
        player_lower == SpacesToUnderscores(Lower(player_name))
    IN  /\ \E e \in 1..Len(image_extensions) : EndsWith(img_name, image_extensions[e])
        /\ ~\E k \in 1..Len(skip_patterns) : Contains(img_name, skip_patterns[k])
        /\ Contains(img_name, player_lower)

\* the bonus of the first of "2025", "2024", "2023" found in the name
YearBonus(img_name) ==
    LET found == {y \in 1..Len(recent_years) : Contains(img_name, recent_years[y])}
    IN  IF found = {} THEN 0
        ELSE LET first == CHOOSE y \in found : \A z \in found : y <= z
             IN  (IntOfStr(recent_years[first]).v - 2020) * 10

\* the bonus of the timestamp: nothing when it is empty or int() raises
TimestampBonus(timestamp) ==
    LET ts_year == IntOfStr(SubSeq(timestamp, 1, IF Len(timestamp) < 4 THEN Len(timestamp) ELSE 4))
    IN  IF timestamp # <<>> /\ ts_year.ok THEN (ts_year.v - 2020) * 2 ELSE 0

\* the score of an image that passed the filters
Score(img, team) ==
    LET img_name == Lower(img.name)
        team_lower == SpacesToUnderscores(Lower(team))
    IN  (IF team_lower # <<>> /\ Contains(img_name, team_lower) THEN 100 ELSE 0)
        + YearBonus(img_name)
        + (IF Contains(img_name, <<"p", "l", "a", "y", "e", "r">>)
              \/ Contains(img_name, <<"h", "e", "a", "d", "s", "h", "o", "t">>)
           THEN 20 ELSE 0)
        - (IF Len(img_name) > 50 THEN 10 ELSE 0)
        + TimestampBonus(img.timestamp)

\* best_image = None
NoImage == [name |-> <<>>, timestamp |-> <<>>]

\* the loop over the images of one answer, from the best found so far
RECURSIVE ScanImages(_, _, _, _)
ScanImages(images, team, player_name, best) ==
    IF images = <<>> THEN best
    ELSE LET img == Head(images)
             better == /\ PassesFilters(img, player_name)
                       /\ Score(img, team) > best.score
         IN  ScanImages(Tail(images), team, player_name,
                        IF better THEN [image |-> img, score |-> Score(img, team)]
                        ELSE best)

\* prefixes: "{clean_team}_{player_name}" when a team is given, then the name
Prefixes(player_name, team) ==
    (IF team # <<>>
     THEN <<SpacesToUnderscores(WithoutDots(SpacesToUnderscores(team)) \o <<"_">> \o player_name)>>
     ELSE <<>>)
    \o <<SpacesToUnderscores(player_name)>>

T1 == <<"T", "1">>
Timestamp2021 == <<"2", "0", "2", "1", "-", "0", "8", "-", "2", "8", "T", "1", "0", ":", "0", "0", ":", "0", "0", "Z">>
Timestamp2025 == <<"2", "0", "2", "5", "-", "0", "2", "-", "0", "1", "T", "0", "9", ":", "3", "0", ":", "0", "0", "Z">>

\* the files of the index
IndexFiles ==
    {[name |-> <<"F", "a", "k", "e", "r", ".", "p", "n", "g">>, timestamp |-> Timestamp2021],
     [name |-> <<"F", "a", "k", "e", "r", "_", "2", ".", "j", "p", "g">>, timestamp |-> Timestamp2021],
     [name |-> <<"F", "a", "k", "e", "r", "_", "2", "0", "2", "5", "_", "S", "p", "r", "i", "n", "g", ".", "p", "n", "g">>,
      timestamp |-> Timestamp2025],
     [name |-> <<"F", "a", "k", "e", "r", "_", "l", "o", "g", "o", ".", "p", "n", "g">>, timestamp |-> Timestamp2025],
     [name |-> <<"F", "a", "k", "e", "r", ".", "g", "i", "f">>, timestamp |-> Timestamp2025],
     [name |-> <<"T", "1", "_", "F", "a", "k", "e", "r", "_", "2", "0", "2", "5", ".", "p", "n", "g">>,
      timestamp |-> Timestamp2025],
     [name |->
        <<"F", "a", "k", "e", "r", "_", "L", "C", "K", "_", "2", "0", "2",
          "1", "_", "S", "u", "m", "m", "e", "r", "_", "F", "i", "n", "a",
          "l", "s", "_", "P", "r", "e", "s", "s", "_", "C", "o", "n", "f",
          "e", "r", "e", "n", "c", "e", "_", "D", "a", "y", "_", "T", "w",
          "o", ".", "j", "p", "g">>,
      timestamp |-> Timestamp2021]}

\* the largest number of images in one answer
MaxImages == 2

\* the lists of at most MaxImages different files that start with prefix
AnswersTo(prefix) ==
    {list \in SeqsUpTo({f \in IndexFiles : StartsWith(f.name, prefix)}, MaxImages) :
        \A i, j \in 1..Len(list) : i # j => list[i] # list[j]}

ImageTeams == {<<>>, T1}

ImageIdle ==
    /\ img_team = <<>>
    /\ img_index = <<>>
    /\ img_p = 0
    /\ best_image = NoImage
    /\ best_score = 0 - 1
    /\ img_pc = "idle"
    /\ img_ret = "none"

\* search_player_image("Faker", team) is entered: best_image = None,
\* best_score = -1
ImageInit ==
    /\ img_team \in ImageTeams
    /\ LET prefixes == Prefixes(Faker, img_team)
       IN  img_index \in {list \in [1..Len(prefixes) -> UNION {AnswersTo(prefixes[i]) : i \in 1..Len(prefixes)}] :
                            \A i \in 1..Len(prefixes) : list[i] \in AnswersTo(prefixes[i])}
    /\ img_p = 0
    /\ best_image = NoImage
    /\ best_score = 0 - 1
    /\ img_pc = "search"
    /\ img_ret = "none"

\* one prefix: _rate_limit, the allimages request and, unless it raises,
\* the loop over the images of the answer
SearchPrefix ==
    /\ img_pc = "search"
    /\ img_p < Len(img_index)
    /\ \E raised \in BOOLEAN :
        IF raised
        THEN /\ img_pc' = "done"
             /\ img_ret' = "None"
             /\ UNCHANGED <<img_p, best_image, best_score>>
        ELSE LET best == ScanImages(img_index[img_p + 1], img_team, Faker,
                                    [image |-> best_image, score |-> best_score])
             IN  /\ best_image' = best.image
                 /\ best_score' = best.score
                 /\ img_p' = img_p + 1
                 /\ UNCHANGED <<img_pc, img_ret>>
    /\ UNCHANGED <<img_team, img_index, image_frame>>

\* after the prefixes: "if best_image:" returns its scaled URL, otherwise
\* _search_image_by_title is called
ImageChoose ==
    /\ img_pc = "search"
    /\ img_p = Len(img_index)
    /\ IF best_image # NoImage
       THEN img_pc' = "done" /\ img_ret' = "url_of_best_image"
       ELSE img_pc' = "fallback" /\ UNCHANGED img_ret
    /\ UNCHANGED <<img_team, img_index, img_p, best_image, best_score, image_frame>>

\* _search_image_by_title: one search request; the URL of its first result,
\* or None when there is none or the request raises
SearchByTitle ==
    /\ img_pc = "fallback"
    /\ img_pc' = "done"
    /\ img_ret' \in {"url_of_search_result", "None_of_search"}
    /\ UNCHANGED <<img_team, img_index, img_p, best_image, best_score, image_frame>>

ImageNext == SearchPrefix \/ ImageChoose \/ SearchByTitle

-----------------------------------------------------------------------------
(* The Flask server: app.run(threaded=True) serves every HTTP request on a *)
(* thread of its own, and the import and profile handlers build a new      *)
(* LeaguepediaClient, whose last_request_time starts at 0.  Time is        *)
(* counted in tenths of a second and is the same for all threads.          *)

Threads == {1, 2}

\* the upstream requests one handler's client sends
MaxRequests == 2

WebIdle ==
    /\ th_pc = [t \in Threads |-> "idle"]
    /\ th_elapsed = [t \in Threads |-> API_REQUEST_DELAY]
    /\ th_sleep = [t \in Threads |-> 0]
    /\ th_sent = [t \in Threads |-> 0]
    /\ dispatched = 0
    /\ since_dispatch = API_REQUEST_DELAY
    /\ last_gap = API_REQUEST_DELAY

\* the server is up and no HTTP request has arrived
WebInit == WebIdle

\* an HTTP request arrives: its handler builds the service and the client,
\* last_request_time = 0, long ago
HandlerStarts ==
    \E t \in Threads :
        /\ th_pc[t] = "idle"
        /\ th_pc' = [th_pc EXCEPT ![t] = "ready"]
        /\ th_elapsed' = [th_elapsed EXCEPT ![t] = API_REQUEST_DELAY]
        /\ UNCHANGED <<th_sleep, th_sent, dispatched, since_dispatch, last_gap, web_frame>>

\* last_request_time = time.time() and session.get / session.post on thread t
Dispatch(t) ==
    /\ th_pc' = [th_pc EXCEPT ![t] = "flight"]
    /\ th_elapsed' = [th_elapsed EXCEPT ![t] = 0]
    /\ th_sent' = [th_sent EXCEPT ![t] = @ + 1]
    /\ dispatched' = IF dispatched < 2 THEN dispatched + 1 ELSE 2
    /\ last_gap' = IF dispatched = 0 THEN last_gap ELSE since_dispatch
    /\ since_dispatch' = 0

\* _rate_limit on the thread's own client: the request goes out at once when
\* the client's delay has passed, otherwise the thread sleeps for the rest
RateLimit ==
    \E t \in Threads :
        /\ th_pc[t] = "ready"
        /\ IF RateLimitSleep(th_elapsed[t]) = 0
           THEN Dispatch(t) /\ UNCHANGED th_sleep
           ELSE /\ th_pc' = [th_pc EXCEPT ![t] = "sleep"]
                /\ th_sleep' = [th_sleep EXCEPT ![t] = RateLimitSleep(th_elapsed[t])]
                /\ UNCHANGED <<th_elapsed, th_sent, dispatched, since_dispatch, last_gap>>
        /\ UNCHANGED web_frame

\* time.sleep is over and the request goes out
WakeUp ==
    \E t \in Threads :
        /\ th_pc[t] = "sleep"
        /\ th_sleep[t] = 0
        /\ Dispatch(t)
        /\ UNCHANGED <<th_sleep, web_frame>>

\* the answer to the thread's request arrives; the handler goes on to its
\* next request or returns
AnswerArrives ==
    \E t \in Threads :
        /\ th_pc[t] = "flight"
        /\ th_pc' = [th_pc EXCEPT ![t] = IF th_sent[t] < MaxRequests THEN "ready" ELSE "done"]
        /\ UNCHANGED <<th_elapsed, th_sleep, th_sent, dispatched, since_dispatch,
                       last_gap, web_frame>>

\* a tenth of a second passes for every thread
TimePasses ==
    /\ \/ since_dispatch < API_REQUEST_DELAY
       \/ \E t \in Threads : th_sleep[t] > 0 \/ th_elapsed[t] < API_REQUEST_DELAY
    /\ th_elapsed' = [t \in Threads |->
                        IF th_elapsed[t] < API_REQUEST_DELAY THEN th_elapsed[t] + 1
                        ELSE th_elapsed[t]]
    /\ th_sleep' = [t \in Threads |-> IF th_sleep[t] > 0 THEN th_sleep[t] - 1 ELSE 0]
    /\ since_dispatch' = IF since_dispatch < API_REQUEST_DELAY THEN since_dispatch + 1
                         ELSE since_dispatch
    /\ UNCHANGED <<th_pc, th_sent, dispatched, last_gap, web_frame>>

WebNext == HandlerStarts \/ RateLimit \/ WakeUp \/ AnswerArrives \/ TimePasses

-----------------------------------------------------------------------------
(* Two upserts of one identity on threads of the server.  get_by_ign and   *)
(* add or update open a connection each (connection.py 20-36); a statement *)
(* of one connection runs as a whole, and statements of other connections  *)
(* run between the lookup of an upsert and its write.                      *)

\* the Players the two callers hand in: the same ign, other totals
UpsertPlayers ==
    <<aggregate_player_stats(NormalizeAll(<<FakerWin>>))[1],
      aggregate_player_stats(NormalizeAll(<<FakerWin, FakerLoss>>))[1]>>

\* the delete and clear_all calls made beside the two upserts
MaxDeletes == 1

Deletions == {k \in 1..Len(up_log) : up_log[k].op \in {"delete", "clear_all"}}

UpsertIdle ==
    /\ up_pc = [t \in Threads |-> "off"]
    /\ up_existing = [t \in Threads |-> 0]
    /\ up_ret = [t \in Threads |-> "none"]
    /\ up_wrote = [t \in Threads |-> "none"]
    /\ up_log = <<>>

\* both upserts are called
UpsertInit ==
    /\ up_pc = [t \in Threads |-> "idle"]
    /\ up_existing = [t \in Threads |-> 0]
    /\ up_ret = [t \in Threads |-> "none"]
    /\ up_wrote = [t \in Threads |-> "none"]
    /\ up_log = <<>>

\* upsert, its first statement: existing = self.get_by_ign(player.ign)
UpsertLookup ==
    \E t \in Threads :
        /\ up_pc[t] = "idle"
        /\ LET existing == get_by_ign(table, UpsertPlayers[t].ign)
               id == IF existing # {} THEN (CHOOSE r \in existing : TRUE).id ELSE 0
           IN  /\ up_existing' = [up_existing EXCEPT ![t] = id]
               /\ up_log' = Append(up_log, [t |-> t, op |-> "lookup", id |-> id])
        /\ up_pc' = [up_pc EXCEPT ![t] = "looked"]
        /\ UNCHANGED <<table, seq_id, up_ret, up_wrote, upsert_frame>>

\* upsert, its second statement: update(player) with the id looked up when
\* a row was found, add(player) otherwise, and the value returned
UpsertWrite ==
    \E t \in Threads :
        /\ up_pc[t] = "looked"
        /\ LET updating == up_existing[t] # 0
               res == IF updating
                      THEN RepoUpdate(Db, up_existing[t], UpsertPlayers[t], clock)
                      ELSE RepoAdd(Db, UpsertPlayers[t], clock)
               wrote == IF updating THEN "update" ELSE "add"
           IN  /\ table' = res.rows
               /\ seq_id' = res.seq
               /\ up_ret' = [up_ret EXCEPT ![t] = IF res.ok THEN "ok" ELSE "failed"]
               /\ up_wrote' = [up_wrote EXCEPT ![t] = wrote]
               /\ up_log' = Append(up_log, [t |-> t, op |-> wrote, id |-> up_existing[t]])
        /\ up_pc' = [up_pc EXCEPT ![t] = "done"]
        /\ UNCHANGED <<up_existing, upsert_frame>>

\* PlayerRepository.delete(id) called from another request
ConcurrentDelete ==
    \E id \in 1..MaxId :
        /\ Cardinality(Deletions) < MaxDeletes
        /\ table' = {r \in table : r.id # id}
        /\ up_log' = Append(up_log, [t |-> 0, op |-> "delete", id |-> id])
        /\ UNCHANGED <<seq_id, up_pc, up_existing, up_ret, up_wrote, upsert_frame>>

\* PlayerRepository.clear_all() called from another request
ConcurrentClearAll ==
    /\ Cardinality(Deletions) < MaxDeletes
    /\ table' = {}
    /\ up_log' = Append(up_log, [t |-> 0, op |-> "clear_all", id |-> 0])
    /\ UNCHANGED <<seq_id, up_pc, up_existing, up_ret, up_wrote, upsert_frame>>

ConcurrentNext == UpsertLookup \/ UpsertWrite \/ ConcurrentDelete \/ ConcurrentClearAll

-----------------------------------------------------------------------------
(* Specifications *)

\* one import run, from the call to its return, against the upstream source
\* and the players table
Init == ImportInit /\ NormIdle /\ AggIdle /\ FilterIdle /\ SessionIdle /\ DerivedIdle /\ ImageIdle /\ WebIdle /\ UpsertIdle
Spec == Init /\ [][ImportNext]_vars

\* the normalisation loop of fetch_player_game_stats on bounded lists of rows
InitNormalize ==
    /\ NormInit /\ AggIdle /\ StoreIdle /\ ImportIdle
    /\ FilterIdle /\ SessionIdle /\ DerivedIdle /\ ImageIdle /\ WebIdle /\ UpsertIdle
SpecNormalize == InitNormalize /\ [][NormNext]_vars

\* aggregate_player_stats on bounded lists of GameStats
InitAggregate ==
    /\ AggInit /\ NormIdle /\ StoreIdle /\ ImportIdle
    /\ FilterIdle /\ SessionIdle /\ DerivedIdle /\ ImageIdle /\ WebIdle /\ UpsertIdle
SpecAggregate == InitAggregate /\ [][AggNext]_vars

\* a fetch ordered by date, newest first, and the aggregation of its records
InitFetchAggregate ==
    /\ FetchedInit /\ AggIdle /\ StoreIdle /\ ImportIdle
    /\ FilterIdle /\ SessionIdle /\ DerivedIdle /\ ImageIdle /\ WebIdle /\ UpsertIdle
SpecFetchAggregate == InitFetchAggregate /\ [][FetchAggregateNext]_vars

\* the repository calls, in any order, on the players table
InitStore ==
    /\ StoreInit /\ NormIdle /\ AggIdle /\ ImportIdle
    /\ FilterIdle /\ SessionIdle /\ DerivedIdle /\ ImageIdle /\ WebIdle /\ UpsertIdle
SpecStore == InitStore /\ [][StoreNext]_vars

\* the filter built for every label and year
InitFilter ==
    /\ FilterInit /\ NormIdle /\ AggIdle /\ StoreIdle /\ ImportIdle
    /\ SessionIdle /\ DerivedIdle /\ ImageIdle /\ WebIdle /\ UpsertIdle
SpecFilter == InitFilter /\ [][FilterNext]_vars

\* the operations of one client, in any order
InitClient ==
    /\ SessionInit /\ NormIdle /\ AggIdle /\ StoreIdle /\ ImportIdle
    /\ FilterIdle /\ DerivedIdle /\ ImageIdle /\ WebIdle /\ UpsertIdle
SpecClient == InitClient /\ [][SessionNext]_vars

\* the properties of a Player read for every combination of totals
InitDerived ==
    /\ DerivedInit /\ NormIdle /\ AggIdle /\ StoreIdle /\ ImportIdle
    /\ FilterIdle /\ SessionIdle /\ ImageIdle /\ WebIdle /\ UpsertIdle
SpecDerived == InitDerived /\ [][DerivedNext]_vars

\* search_player_image for every team argument and answer of the index
InitImage ==
    /\ ImageInit /\ NormIdle /\ AggIdle /\ StoreIdle /\ ImportIdle
    /\ FilterIdle /\ SessionIdle /\ DerivedIdle /\ WebIdle /\ UpsertIdle
SpecImage == InitImage /\ [][ImageNext]_vars

\* two HTTP requests that reach the upstream source, in every interleaving
InitWeb ==
    /\ WebInit /\ NormIdle /\ AggIdle /\ StoreIdle /\ ImportIdle
    /\ FilterIdle /\ SessionIdle /\ DerivedIdle /\ ImageIdle /\ UpsertIdle
SpecWeb == InitWeb /\ [][WebNext]_vars

\* two upserts of one identity beside a delete or clear_all, in every
\* interleaving of their statements
InitConcurrent ==
    /\ UpsertInit /\ StoreInit /\ NormIdle /\ AggIdle /\ ImportIdle
    /\ FilterIdle /\ SessionIdle /\ DerivedIdle /\ ImageIdle /\ WebIdle
SpecConcurrent == InitConcurrent /\ [][ConcurrentNext]_vars

-----------------------------------------------------------------------------
(* Properties of one import run (Spec) *)

\* C1: the list _cargo_query_all returns never has more than 2500 elements,
\* whatever the pages of the upstream source hold.
C1_ReturnsAtMostMaxResults ==
    /\ ListLen(fetch_result) <= max_results
    /\ pc \in {"process", "save"} => fetch_result = Take(all_results, max_results)

\* C1 happens: more than 2500 rows were accumulated and 2500 were returned
C1_Truncated ==
    /\ pc = "process"
    /\ ListLen(all_results) > max_results
    /\ ListLen(fetch_result) = max_results

\* C5: a finished run has returned a triple (players_imported,
\* games_processed, optional message) and has not raised, whatever failed
\* inside it.
C5_AlwaysReturnsTriple ==
    pc = "done" =>
        /\ ~outcome.raised
        /\ outcome.imported \in Nat
        /\ outcome.games \in Nat
        /\ outcome.error \in {"None", "NoData", "RateLimit", "ImportFailed"}

\* C5 happens: the run ended in the except clause on something other than
\* an answer of the upstream source
C5_FailureInsideBecameOutcome ==
    /\ pc = "done"
    /\ outcome.error = "ImportFailed"
    /\ ~query_failed
    /\ ~outcome.raised

\* C6: when the fetch completes without any failure and yields zero game
\* records, games_processed is 0, the error field is unset and the route
\* does not answer with a failure.
C6_ZeroYieldIsNotAnError ==
    (/\ pc = "done"
     /\ fetched
     /\ is_logged_in
     /\ ~query_failed
     /\ ListLen(import_stats) = 0)
    => (/\ outcome.games = 0
        /\ outcome.error = "None"
        /\ RouteResponse(outcome).success)

\* C7: no run in which a call of the upstream source failed ends with the
\* zero-yield outcome "No data found".
C7_ZeroYieldOnlyWhenSourceEmpty ==
    (pc = "done" /\ query_failed) => outcome.error # "NoData"

\* the first n pages of the log, one after another
RECURSIVE PagesJoined(_)
PagesJoined(n) ==
    IF n = 0 THEN <<>> ELSE Extend(PagesJoined(n - 1), page_log[n].rows)

\* the pagination, but for what the result is
PagingAsSpecified ==
    LET n == Len(page_log)
    IN  /\ n <= 5
        /\ \A i \in 1..n : page_log[i].offset = API_MAX_LIMIT * (i - 1)
        /\ pc = "attempt" => offset = API_MAX_LIMIT * n
        /\ \A i \in 1..(n - 1) :
                /\ ListLen(page_log[i].rows) >= API_MAX_LIMIT
                /\ ListLen(PagesJoined(i)) < max_results
        /\ pc = "process" =>
                \/ ListLen(page_log[n].rows) < API_MAX_LIMIT
                \/ ListLen(PagesJoined(n)) >= max_results
        /\ all_results = PagesJoined(n)
        /\ \A i \in 1..n :
                page_log[i].told =
                    IF observer = "none" THEN 0 - 1 ELSE ListLen(PagesJoined(i))

\* C19: the page queries have offsets 0, 500, 1000, ..., the loop stops
\* after the first page shorter than 500 rows or once 2500 rows are
\* accumulated, so after 5 page queries at most; the observer is called once
\* after each page with the running total; the result is the first 2500
\* rows of the pages in fetch order, which is all their rows when no page
\* holds more than 500.
C19_PagingAndTruncatedResult ==
    /\ PagingAsSpecified
    /\ pc = "process" =>
            /\ fetch_result = Take(PagesJoined(Len(page_log)), max_results)
            /\ (\A i \in 1..Len(page_log) :
                    ListLen(page_log[i].rows) <= API_MAX_LIMIT)
                => fetch_result = PagesJoined(Len(page_log))

\* C19 happens: five pages were fetched for an observer, one of them longer
\* than asked for
C19_FivePagesOneTooLong ==
    /\ pc = "process"
    /\ Len(page_log) = 5
    /\ observer = "quiet"
    /\ page_log[5].told = 5 * API_MAX_LIMIT + 1
    /\ ListLen(fetch_result) = max_results

\* C19 as stated: the result is all the rows of the fetched pages in fetch
\* order.
C19_ResultIsAllPages ==
    /\ PagingAsSpecified
    /\ pc = "process" => fetch_result = PagesJoined(Len(page_log))

\* a label that is none of the recognized ones and contains one of the
\* tier-2 exclusion substrings
FreeTextTier2(label) ==
    /\ label # ""
    /\ Upper(label) \notin {"LCS", "LCK", "LPL", "LEC", "WORLDS", "MSI"}
    /\ \E i \in 1..Len(Tier2Patterns) :
            Like(PieceChars(label), PatternChars(<<Tier2Patterns[i]>>))

\* the clause for the label asks for the label in the page name and
\* excludes a substring every one of its patterns holds, and accepts no page
NoPageSatisfies(label, y) ==
    LET clause == WhereClause(label, y)
    IN  /\ \A j \in 1..Len(clause[1].patterns) :
                Like(PatternChars(clause[1].patterns[j]),
                     <<"%">> \o PieceChars(label) \o <<"%">>)
        /\ \E k \in 2..Len(clause) :
                /\ clause[k].neg
                /\ \A j \in 1..Len(clause[1].patterns) :
                        Like(PatternChars(clause[1].patterns[j]),
                             PatternChars(clause[k].patterns[1]))
        /\ \A name \in OverviewPages : ~Accepts(clause, name)

\* C30 as stated: for a free-text label that contains a tier-2 exclusion
\* substring no page name satisfies the filter, and the import for that
\* label always ends with the zero-yield outcome (taken on the runs whose
\* observer does not raise).
C30_AlwaysZeroYield ==
    (pc = "done" /\ observer # "faulty" /\ FreeTextTier2(scope.label)) =>
        /\ NoPageSatisfies(scope.label, scope.year)
        /\ outcome = Returned(0, 0, "NoData")

\* C30: for a free-text label that contains a tier-2 exclusion substring no
\* page name satisfies the filter, every page query that is answered
\* returns no row, and the import for that label stores nothing: it ends
\* with the zero-yield outcome whenever its fetch returns, and with the
\* failure outcome when its fetch fails.
C30_ZeroYieldWhenFetched ==
    FreeTextTier2(scope.label) =>
        /\ all_results = <<>>
        /\ table = table_prev
        /\ last_op = NoOp
        /\ pc = "done" =>
                /\ NoPageSatisfies(scope.label, scope.year)
                /\ outcome.imported = 0
                /\ outcome.games = 0
                /\ IF fetched THEN outcome.error = "NoData"
                   ELSE outcome.error \in {"ImportFailed", "RateLimit"}

\* C30 happens: an import for VCS and 2025 fetched no row and ended with the
\* zero-yield outcome, although the label condition by itself accepts a page
C30_FreeTextLabelExcluded ==
    /\ pc = "done"
    /\ scope.label = "VCS"
    /\ scope.year = "2025"
    /\ fetched
    /\ outcome = Returned(0, 0, "NoData")
    /\ \E name \in OverviewPages : Holds(LabelCondition("VCS", "2025"), name)

\* C26: when a page query is answered ratelimited on all API_MAX_RETRIES
\* attempts, _cargo_query returns an empty list and does not raise, the
\* pagination takes it for a short page and stops, and _cargo_query_all
\* returns the rows of the earlier pages, none when it was the first page.
C26_RateLimitedPageEndsPaging ==
    (query_failed /\ pc # "done") =>
        LET n == Len(page_log)
        IN  /\ pc \in {"process", "save"}
            /\ attempt = API_MAX_RETRIES - 1
            /\ n >= 1
            /\ page_log[n].rows = <<>>
            /\ offset = API_MAX_LIMIT * (n - 1)
            /\ all_results = PagesJoined(n - 1)
            /\ fetch_result = PagesJoined(n - 1)
            /\ n = 1 => fetch_result = <<>>
            /\ pc = "process" => outcome = Pending

\* C26 happens: the second page query was answered ratelimited five times
\* and the 500 rows of the first page were returned
C26_SecondPageRateLimited ==
    /\ pc = "process"
    /\ query_failed
    /\ Len(page_log) = 2
    /\ page_log[2].rows = <<>>
    /\ ListLen(fetch_result) = API_MAX_LIMIT

\* C27: the import writes to the store only after the fetch of all pages
\* and the aggregation are done: as long as the run has not reached its save
\* loop, and in every run whose fetch fails or yields no record, no store
\* write is made and the store is as it was.
C27_StoreWrittenOnlyAfterAggregation ==
    /\ (pc \notin {"save", "done"}) => (last_op = NoOp /\ table = table_prev)
    /\ (pc = "done" /\ (~fetched \/ ListLen(import_stats) = 0)) =>
            /\ last_op = NoOp
            /\ table = table_prev
            /\ outcome.imported = 0
    /\ last_op # NoOp =>
            /\ pc \in {"save", "done"}
            /\ fetched
            /\ fetch_result = Take(all_results, max_results)
            /\ ListLen(import_stats) > 0
            /\ Len(aggregated) > 0
            /\ \E k \in 1..Len(aggregated) : last_op.p = aggregated[k]

\* C27 happens: the second page query raised after a full first page, and
\* the run ended with the row the table held before
C27_FetchFailedOnSecondPage ==
    /\ pc = "done"
    /\ ~fetched
    /\ Len(page_log) = 1
    /\ ListLen(all_results) = API_MAX_LIMIT
    /\ offset = API_MAX_LIMIT
    /\ query_failed
    /\ outcome.error = "ImportFailed"
    /\ table # {}
    /\ table = table_prev

-----------------------------------------------------------------------------
(* Properties of the repository calls (SpecStore) *)

\* the last two repository calls were upsert(p), upsert(p) for one Player p
UpsertTwice ==
    /\ last_op.op = "upsert"
    /\ prev_op.op = "upsert"
    /\ prev_op.p = last_op.p

\* the row of the table rows holding the ign of Player p
RowFor(rows, p) == CHOOSE r \in rows : r.ign = p.ign

\* C2 as stated: upsert(p) twice in a row leaves the store as upsert(p)
\* once left it: same rows, same ids, same field values, same timestamp.
C2_UpsertTwiceSameState == UpsertTwice => table = table_prev

\* C2: upsert(p) twice in a row leaves the store as upsert(p) once left it,
\* same rows, same ids, same values of ign, role, team and the accumulators,
\* except for last_updated of p's row, which is the time of the second call.
C2_UpsertTwiceSameButStamp ==
    UpsertTwice =>
        /\ last_op.ok /\ prev_op.ok
        /\ {r.id : r \in table} = {r.id : r \in table_prev}
        /\ \A r \in table : \E q \in table_prev :
                /\ q.id = r.id
                /\ TotalsOf(q) = TotalsOf(r)
                /\ IF r.ign = last_op.p.ign
                   THEN r.last_updated = last_op.now
                   ELSE r.last_updated = q.last_updated

\* C2 happens: upsert(p) ran twice in a row with a second between the calls
C2_SecondUpsertLater ==
    /\ UpsertTwice
    /\ last_op.now > prev_op.now
    /\ table # table_prev

\* C3: no two rows of the players table hold the same ign, and an upsert or
\* an import of an ign already stored adds no row for it.
C3_IgnUnique ==
    /\ \A r \in table, q \in table : r.ign = q.ign => r = q
    /\ (last_op.op = "upsert" /\ \E r \in table_prev : r.ign = last_op.p.ign)
            => Cardinality(table) = Cardinality(table_prev)
    /\ last_op.op = "import" =>
            Cardinality(table) = Cardinality(table_prev) +
                Cardinality({i \in 1..Len(last_op.p) :
                    ~\E r \in table_prev : r.ign = last_op.p[i].ign})

\* C3 happens: an ign already stored was handed to add, which was refused,
\* or was imported again
C3_DuplicateOffered ==
    /\ last_op.op \in {"add", "import"}
    /\ Cardinality(table) >= 2
    /\ IF last_op.op = "add"
       THEN ~last_op.ok /\ \E r \in table : r.ign = last_op.p.ign
       ELSE \E r \in table_prev : r.ign = last_op.p[1].ign

-----------------------------------------------------------------------------
(* Properties of the normalisation loop (SpecNormalize) *)

\* the row has a non-empty player identity
HasLink(r) == DictGet(r, "Link", EmptyStr).t = "str" /\ DictGet(r, "Link", EmptyStr).s # <<>>

\* C9: a raw row is dropped only when its Link is empty or absent: every row
\* with a non-empty Link yields exactly one record, whatever its other fields
\* hold, rows without one yield none, and the records keep the rows' order.
C9_DroppedOnlyWithoutLink ==
    norm_pc = "done" =>
        /\ \A i \in 1..Len(results) :
                Cardinality({k \in 1..Len(norm_src) : norm_src[k] = i})
                    = (IF HasLink(results[i]) THEN 1 ELSE 0)
        /\ \A j \in 1..Len(norm_src), k \in 1..Len(norm_src) :
                j < k => norm_src[j] < norm_src[k]
        /\ Len(game_stats) = Len(norm_src)

\* the integer a raw value stands for, 0 when it stands for none
IntOrZero(v) == IF v.t = "str" /\ IntOfStr(v.s).ok THEN IntOfStr(v.s).v ELSE 0

\* C10: in every emitted record each numeric field is the integer value of
\* the raw field when that parses as an integer and 0 otherwise (Kills "abc"
\* gives 0); won holds exactly when the raw PlayerWin, lower-cased, is "yes",
\* "1" or "true"; the duration is the parsed raw value, or 30.0 when the raw
\* value is absent or does not parse.
C10_FieldsFromRaw ==
    \A k \in 1..Len(game_stats) :
        LET gs == game_stats[k]
            r == results[norm_src[k]]
            win == DictGet(r, "PlayerWin", Missing)
            gl == DictGet(r, "Gamelength Number", Missing)
        IN  /\ gs.kills = IntOrZero(DictGet(r, "Kills", Missing))
            /\ gs.deaths = IntOrZero(DictGet(r, "Deaths", Missing))
            /\ gs.assists = IntOrZero(DictGet(r, "Assists", Missing))
            /\ gs.gold = IntOrZero(DictGet(r, "Gold", Missing))
            /\ gs.cs = IntOrZero(DictGet(r, "CS", Missing))
            /\ gs.damage = IntOrZero(DictGet(r, "DamageToChampions", Missing))
            /\ DictGet(r, "Kills", Missing) = Abc => gs.kills = 0
            /\ gs.won <=> (win.t = "str" /\ Lower(win.s) \in
                                {<<"y", "e", "s">>, <<"1">>, <<"t", "r", "u", "e">>})
            /\ gs.game_length_minutes =
                    (IF gl.t = "str" /\ FloatOfStr(gl.s).ok
                     THEN FloatOfStr(gl.s).v
                     ELSE FloatOfNat(30))

\* C10 happens: records were emitted for a row whose Kills is "abc" and whose
\* PlayerWin is "Yes", and for a row without a duration
C10_DefaultsApplied ==
    /\ norm_pc = "done"
    /\ \E k \in 1..Len(game_stats) :
            /\ results[norm_src[k]]["Kills"] = Abc
            /\ game_stats[k].kills = 0
            /\ results[norm_src[k]]["PlayerWin"] = Str(<<"Y", "e", "s">>)
            /\ game_stats[k].won
    /\ \E k \in 1..Len(game_stats) :
            /\ results[norm_src[k]]["Gamelength Number"] = Missing
            /\ game_stats[k].game_length_minutes = FloatOfNat(30)

\* a float above zero
IsPositive(x) == x.top > 0 \/ x.hi > 0 \/ x.lo > 0

\* C20: every record the normalisation emits has kills, deaths, assists,
\* gold, cs and damage that are non-negative integers and a duration that is
\* strictly positive, whatever the raw row holds.
C20_CountsNonNegativeDurationPositive ==
    \A k \in 1..Len(game_stats) :
        LET gs == game_stats[k]
        IN  /\ gs.kills \in Nat
            /\ gs.deaths \in Nat
            /\ gs.assists \in Nat
            /\ gs.gold \in Nat
            /\ gs.cs \in Nat
            /\ gs.damage \in Nat
            /\ IsPositive(gs.game_length_minutes)

-----------------------------------------------------------------------------
(* Properties of the aggregation (SpecAggregate) *)

\* the records of the player name in list, in order
RecordsOf(list, name) == SelectSeq(list, LAMBDA gs : gs.player_name = name)

\* the sum of the integer field f over the records of list
RECURSIVE SumInt(_, _)
SumInt(list, f) ==
    IF list = <<>> THEN 0 ELSE Head(list)[f] + SumInt(Tail(list), f)

\* the durations of the records of list added up from 0.0 in the order of list
RECURSIVE SumMinutes(_)
SumMinutes(list) ==
    IF list = <<>> THEN FZero
    ELSE FAdd(SumMinutes(SubSeq(list, 1, Len(list) - 1)),
              list[Len(list)].game_length_minutes)

\* the reorderings of list
Reorderings(list) ==
    {[i \in 1..Len(list) |-> list[f[i]]] :
        f \in {g \in [1..Len(list) -> 1..Len(list)] :
                    \A i, j \in 1..Len(list) : g[i] = g[j] => i = j}}

IntTotals ==
    {"games_played", "wins", "kills", "deaths", "assists", "total_gold",
     "total_cs", "total_damage"}

\* the entry of name in the result of aggregating list
EntryOf(list, name) ==
    LET dict == aggregate_player_stats(list) IN dict[KeyIndex(dict, name)]

\* one entry per distinct player identity of the input, and the counts and
\* integer sums of the identity's records in it
CountsAndIntSums ==
    /\ {players[k].ign : k \in 1..Len(players)}
            = {agg_in[i].player_name : i \in 1..Len(agg_in)}
    /\ \A j, k \in 1..Len(players) : players[j].ign = players[k].ign => j = k
    /\ \A k \in 1..Len(players) :
            LET p == players[k]
                mine == RecordsOf(agg_in, p.ign)
            IN  /\ p.games_played = Len(mine)
                /\ p.wins = Len(SelectSeq(mine, LAMBDA gs : gs.won))
                /\ p.wins <= p.games_played
                /\ p.kills = SumInt(mine, "kills")
                /\ p.deaths = SumInt(mine, "deaths")
                /\ p.assists = SumInt(mine, "assists")
                /\ p.total_gold = SumInt(mine, "gold")
                /\ p.total_cs = SumInt(mine, "cs")
                /\ p.total_damage = SumInt(mine, "damage")

\* C8 as stated: one entry per identity, counts and sums per identity, and
\* all numeric totals, total_minutes among them, the same for every
\* permutation of the input.
C8_TotalsSameForEveryOrder ==
    agg_pc = "done" =>
        /\ CountsAndIntSums
        /\ \A other \in Reorderings(agg_in) : \A k \in 1..Len(players) :
                LET p == players[k]
                    q == EntryOf(other, p.ign)
                IN  /\ \A f \in IntTotals : q[f] = p[f]
                    /\ q.total_minutes = p.total_minutes

\* C8: one entry per identity; games_played, wins and the integer totals are
\* the counts and sums over the identity's records and the same for every
\* permutation of the input; total_minutes is the floating-point sum of the
\* durations taken in input order, the same for every permutation when the
\* durations are whole numbers (the two games of Faker give 2, 1, 7, 6, 15
\* and 58 minutes in either order).
C8_TotalsAreSumsInInputOrder ==
    agg_pc = "done" =>
        /\ CountsAndIntSums
        /\ \A k \in 1..Len(players) :
                players[k].total_minutes = SumMinutes(RecordsOf(agg_in, players[k].ign))
        /\ \A other \in Reorderings(agg_in) : \A k \in 1..Len(players) :
                LET p == players[k]
                    q == EntryOf(other, p.ign)
                IN  /\ \A f \in IntTotals : q[f] = p[f]
                    /\ (\A i \in 1..Len(agg_in) : IsWhole(agg_in[i].game_length_minutes))
                            => q.total_minutes = p.total_minutes
        /\ (\E f \in Reorderings(<<MakeGameStats(FakerWin), MakeGameStats(FakerLoss)>>) :
                agg_in = f)
            => /\ Len(players) = 1
               /\ players[1].games_played = 2
               /\ players[1].wins = 1
               /\ players[1].kills = 7
               /\ players[1].deaths = 6
               /\ players[1].assists = 15
               /\ players[1].total_minutes = FloatOfNat(58)

\* C8 happens: three games of one player with fractional durations were
\* aggregated, and another order of the same games gives other minutes
C8_OrderChangesMinutes ==
    /\ agg_pc = "done"
    /\ Len(agg_in) = 3
    /\ Len(players) = 1
    /\ players[1].games_played = 3
    /\ \E other \in Reorderings(agg_in) :
            EntryOf(other, players[1].ign).total_minutes # players[1].total_minutes

\* the place in list of the last record whose field f is not empty, 0 when
\* there is none
LastWith(list, f) ==
    LET having == {i \in 1..Len(list) : Truthy(list[i][f])}
    IN  IF having = {} THEN 0
        ELSE CHOOSE i \in having : \A j \in having : j <= i

\* C21: the role of each player in the result is the role of the last
\* record of that identity, in input order, whose role is not empty, and is
\* empty when no record of the identity has a role; likewise the team, the
\* two taken independently of each other.
C21_RoleAndTeamOfLastNonEmpty ==
    agg_pc = "done" =>
        \A k \in 1..Len(players) :
            LET p == players[k]
                mine == RecordsOf(agg_in, p.ign)
                r == LastWith(mine, "role")
                t == LastWith(mine, "team")
            IN  /\ IF r > 0 THEN p.role = mine[r].role ELSE ~Truthy(p.role)
                /\ IF t > 0 THEN p.team = mine[t].team ELSE ~Truthy(p.team)

\* C21 happens: a player's role and team come from two different records,
\* neither of them the last
C21_RoleAndTeamFromDifferentRecords ==
    /\ agg_pc = "done"
    /\ Len(players) = 1
    /\ Len(agg_in) = 3
    /\ LastWith(agg_in, "role") = 2
    /\ LastWith(agg_in, "team") = 1
    /\ players[1].role = agg_in[2].role
    /\ players[1].team = agg_in[1].team
    /\ agg_in[1].role # agg_in[2].role

-----------------------------------------------------------------------------
(* Properties of a fetch followed by the aggregation (SpecFetchAggregate) *)

\* the fetched row, among those of the player name that carry the field f,
\* of the latest game; 0 when there is none
LatestWith(name, f) ==
    LET having == {i \in 1..Len(results) :
                        /\ RowEmitted(results[i])
                        /\ MakeGameStats(results[i]).player_name = name
                        /\ Truthy(MakeGameStats(results[i])[f])}
    IN  IF having = {} THEN 0
        ELSE CHOOSE i \in having : \A j \in having : DateRank(j) <= DateRank(i)

\* C22: after the fetch and the aggregation, the role of each player is the
\* role of the player's latest game among the fetched games that carry a
\* role, and likewise the team.
C22_RoleAndTeamOfLatestGame ==
    agg_pc = "done" =>
        \A k \in 1..Len(players) :
            LET p == players[k]
                r == LatestWith(p.ign, "role")
                t == LatestWith(p.ign, "team")
            IN  /\ r > 0 => p.role = MakeGameStats(results[r]).role
                /\ t > 0 => p.team = MakeGameStats(results[t]).team

-----------------------------------------------------------------------------
(* Properties of the filter (SpecFilter) *)

\* the label is one of the two international competitions, in any case
International(label) ==
    label \in {"Worlds", "WORLDS", "worlds", "MSI", "msi"}

\* the exclusions among the conditions
ExclusionsIn(parts) == {parts[i] : i \in {j \in 1..Len(parts) : parts[j].neg}}

\* C11: the filter built for label L and year Y holds every one of the
\* tier-2 exclusions exactly when L is non-empty and is, in any case,
\* neither Worlds nor MSI, and holds none of them otherwise; for LCK and
\* 2025 it holds all exclusions and a condition with the LCK patterns.
C11_ExclusionsForRegionalLabels ==
    filter_pc = "done" =>
        /\ IF tournament_filter # "" /\ ~International(tournament_filter)
           THEN /\ \A i \in 1..Len(Tier2Patterns) :
                    Cardinality({j \in 1..Len(where_parts) :
                        where_parts[j] = NotLike(<<Tier2Patterns[i]>>)}) = 1
                /\ Cardinality(ExclusionsIn(where_parts)) = Len(Tier2Patterns)
           ELSE ExclusionsIn(where_parts) = {}
        /\ (tournament_filter = "LCK" /\ year = "2025") =>
                /\ Len(where_parts) = 1 + Len(Tier2Patterns)
                /\ ~where_parts[1].neg
                /\ \E k \in 1..Len(where_parts[1].patterns) :
                        where_parts[1].patterns[k] \in
                            {<<"LCK/", "2025", "%">>, <<"LCK ", "2025", "%">>,
                             <<"%LCK%Cup%", "2025", "%">>}

\* C11 happens: the filter for LCK 2025 was built, with its 21 conditions
C11_FilterBuilt ==
    /\ filter_pc = "done"
    /\ tournament_filter = "LCK"
    /\ year = "2025"
    /\ Len(where_parts) = 21

\* a page of the league under its old name and one under its new name
OldNamePage(y) == <<"L", "C", "S", "/">> \o YearChars(y) \o <<" ", "S", "e", "a", "s", "o", "n">>
NewNamePage(y) ==
    <<"L", "T", "A", " ", "N", "o", "r", "t", "h", "/">> \o YearChars(y)
        \o <<" ", "S", "e", "a", "s", "o", "n">>

\* C23 as stated: for the label LCS in any letter case the filter accepts
\* the old-name pages and the new-name pages of 2025 and of the years
\* around it, 2024 and 2026.
C23_BothNamesAroundRename ==
    (filter_pc = "done" /\ Upper(tournament_filter) = "LCS"
        /\ year \in {"2024", "2025", "2026"}) =>
            /\ Accepts(where_parts, OldNamePage(year))
            /\ Accepts(where_parts, NewNamePage(year))

\* C23: for the label LCS in any letter case the filter accepts the
\* old-name pages and the new-name pages of 2025 and of the years after it;
\* for 2024 it accepts no new-name page, and the old-name pages when the
\* label is written LCS.
C23_BothNamesFromRenameOn ==
    (filter_pc = "done" /\ Upper(tournament_filter) = "LCS") =>
        /\ year \in {"2025", "2026"} =>
                /\ Accepts(where_parts, OldNamePage(year))
                /\ Accepts(where_parts, NewNamePage(year))
                /\ ~Accepts(where_parts, OldNamePage("2024"))
        /\ year = "2024" =>
                /\ ~Accepts(where_parts, NewNamePage(year))
                /\ tournament_filter = "LCS" => Accepts(where_parts, OldNamePage(year))

\* C23 happens: the filter for lcs and 2026 is built and accepts a page of
\* each name
C23_LowerCaseAfterRename ==
    /\ filter_pc = "done"
    /\ tournament_filter = "lcs"
    /\ year = "2026"
    /\ Accepts(where_parts, NewNamePage("2026"))
    /\ Accepts(where_parts, OldNamePage("2026"))

-----------------------------------------------------------------------------
(* Properties of the client's requests (SpecClient) *)

\* C12: every request follows a _rate_limit call that slept at least the
\* delay less the time elapsed, so that any two consecutive requests of the
\* client are at least API_REQUEST_DELAY apart.
C12_RequestsSpaced ==
    last_request.n > 0 =>
        /\ last_request.slept >= 0
        /\ last_request.elapsed < API_REQUEST_DELAY =>
                last_request.slept >= API_REQUEST_DELAY - last_request.elapsed
        /\ last_request.n = 2 => last_request.gap >= API_REQUEST_DELAY

\* C12 happens: a request came 0.2 s after the one before and was held back
C12_HeldBack ==
    /\ last_request.n = 2
    /\ last_request.elapsed = 2
    /\ last_request.slept = 3

\* C13: a rate-limit answer does not use up the attempts of _cargo_query:
\* the call never returns an empty result because of rate-limit answers, and
\* it raises a transport failure only after API_MAX_RETRIES transport
\* failures, however many rate-limit answers came before.
C13_RateLimitOutsideBudget ==
    /\ cq_result # "empty"
    /\ cq_result = "transport" =>
            Cardinality({i \in 1..Len(answers) : answers[i] = "transport"})
                = API_MAX_RETRIES

\* every request of the current _cargo_query failed in transport
AllTransport == answers # <<>> /\ \A i \in 1..Len(answers) : answers[i] = "transport"

\* C14: when every attempt of a _cargo_query fails in transport, 5 requests
\* are sent, the wait after failed attempt a is 3*(a+1) seconds with none
\* after the last, and the failure is raised, not turned into an empty
\* result; when an attempt succeeds its rows are returned and no further
\* request is sent.
C14_TransportBudget ==
    /\ AllTransport =>
            /\ Len(answers) <= API_MAX_RETRIES
            /\ IF Len(answers) = API_MAX_RETRIES
               THEN /\ cq_result = "transport"
                    /\ qa_result = "raised"
                    /\ waits = <<3, 6, 9, 12>>
               ELSE /\ cq_result = "running"
                    /\ waits = [a \in 1..Len(answers) |-> 3 * a]
    /\ \A i \in 1..Len(answers) :
            answers[i] \in {"rows_full", "rows_short"} =>
                i = Len(answers) /\ cq_result = "rows" /\ qa_result = "returned"

\* C14 happens: five transport failures in a row ended a _cargo_query
C14_FiveFailures ==
    /\ AllTransport
    /\ Len(answers) = 5
    /\ cq_result = "transport"

\* C15: a server-reported error other than ratelimited makes _cargo_query
\* raise at once: it is the last answer of the call, nothing is slept after
\* it, the result is the error and not an empty list, and the pagination
\* of _cargo_query_all ends with it.
C15_ServerErrorRaisesAtOnce ==
    \A i \in 1..Len(answers) :
        answers[i] = "api_error" =>
            /\ i = Len(answers)
            /\ Len(waits) = Len(answers) - 1
            /\ cq_result = "api_error"
            /\ qa_result = "raised"
            /\ cl_pc # "attempt"

\* C15 happens: a server-reported error came after a retry on a later page
C15_ErrorOnLaterPage ==
    /\ cq_result = "api_error"
    /\ offset > 0
    /\ Len(answers) > 1

\* C16: login() on a logged-in client returns True, sends no request and
\* changes neither the login flag nor the last request time; once the flag
\* is set no operation clears it.
C16_LoginWhenLoggedIn ==
    /\ [](login_log.entered_logged_in =>
            /\ login_log.ret = "True"
            /\ login_log.sent = 0
            /\ is_logged_in)
    /\ [][/\ is_logged_in => is_logged_in'
          /\ (CallLogin /\ is_logged_in) =>
                /\ cl_pc' = "ready"
                /\ login_log'.ret = "True"
                /\ UNCHANGED <<is_logged_in, elapsed, last_request>>]_vars

\* C16 happens: login() was called on a logged-in client
C16_CalledLoggedIn ==
    /\ cl_op = "login"
    /\ login_log.entered_logged_in
    /\ login_log.ret = "True"

\* C17: the client is logged in only when the second step of login()
\* answered Success; after any other outcome it is logged out and login()
\* has returned False; without a token the credentials are not submitted.
C17_LoggedInOnlyOnSuccess ==
    /\ is_logged_in => (login_log.entered_logged_in \/ login_log.submit = "Success")
    /\ login_log.ret = "True" <=>
            (login_log.entered_logged_in \/ login_log.submit = "Success")
    /\ login_log.ret = "False" =>
            /\ ~is_logged_in
            /\ \/ login_log.token \in {"no_token", "error"}
               \/ login_log.submit \in {"Failed", "error"}
    /\ login_log.token # "token" => login_log.submit = "none" /\ login_log.sent <= 1
    /\ login_log.submit # "none" => login_log.token = "token" /\ login_log.sent = 2
    /\ (cl_pc \in {"ready", "attempt"} /\ login_log # NoLogin) =>
            login_log.ret \in {"True", "False"}

\* C17 happens: the server refused the credentials and the query went on
\* logged out
C17_LoginRefused ==
    /\ login_log.submit = "Failed"
    /\ login_log.ret = "False"
    /\ ~is_logged_in
    /\ cl_pc = "attempt"

\* a step that enters _cargo_query: the call of _cargo_query_all, or a full
\* page followed by the query of the next one
CargoQueryEntered ==
    \/ cl_pc = "ready" /\ qa_result' = "running"
    \/ cl_pc = "attempt" /\ offset' # offset

\* a step in which the login() called by _cargo_query returns
LoginReturnedToQuery ==
    /\ cl_op = "query_all"
    /\ cl_pc \in {"token", "submit"}
    /\ cl_pc' \notin {"token", "submit"}

-----------------------------------------------------------------------------
(* Properties of the derived statistics (SpecDerived) *)

\* the quotient q is n / d, for d # 0
IsQuotient(q, n, d) == q.den > 0 /\ q.num * d = n * q.den
IsZero(q) == q.den > 0 /\ q.num = 0

\* C18: every derived statistic of a Player has a value whatever the
\* totals: kda is (kills+assists)/max(deaths,1), which is kills+assists
\* when deaths is 0; win_rate and the per-game averages are 0 without games
\* and the per-minute rates are 0 without minutes; otherwise each is its
\* total divided by its denominator, win_rate times 100.
C18_DerivedStatistics ==
    derived_pc = "read" =>
        LET p == totals
            m == HalfMinutes(p.total_minutes)
        IN  /\ \A f \in DOMAIN derived : derived[f] # ZeroDivisionError
            /\ IF p.deaths >= 1
               THEN IsQuotient(derived.kda, p.kills + p.assists, p.deaths)
               ELSE derived.kda = [num |-> p.kills + p.assists, den |-> 1]
            /\ IF p.games_played = 0
               THEN /\ IsZero(derived.win_rate)
                    /\ IsZero(derived.avg_kills)
                    /\ IsZero(derived.avg_deaths)
                    /\ IsZero(derived.avg_assists)
               ELSE /\ IsQuotient(derived.win_rate, 100 * p.wins, p.games_played)
                    /\ IsQuotient(derived.avg_kills, p.kills, p.games_played)
                    /\ IsQuotient(derived.avg_deaths, p.deaths, p.games_played)
                    /\ IsQuotient(derived.avg_assists, p.assists, p.games_played)
            /\ IF m = 0
               THEN /\ IsZero(derived.gold_per_min)
                    /\ IsZero(derived.cs_per_min)
                    /\ IsZero(derived.dmg_per_min)
               ELSE /\ IsQuotient(derived.gold_per_min, 2 * p.total_gold, m)
                    /\ IsQuotient(derived.cs_per_min, 2 * p.total_cs, m)
                    /\ IsQuotient(derived.dmg_per_min, 2 * p.total_damage, m)

\* C18 happens: the statistics of a Player without deaths, games or minutes
\* were read
C18_ZeroDenominators ==
    /\ derived_pc = "read"
    /\ totals.deaths = 0
    /\ totals.games_played = 0
    /\ totals.total_minutes = FZero
    /\ totals.kills + totals.assists = 12
    /\ derived.kda = [num |-> 12, den |-> 1]

-----------------------------------------------------------------------------
(* Properties of the image search (SpecImage) *)

\* the images the prefix searches returned so far, in the order met
RECURSIVE Encountered(_)
Encountered(n) == IF n = 0 THEN <<>> ELSE Encountered(n - 1) \o img_index[n]

\* those of them that pass the three filters
Candidates == SelectSeq(Encountered(img_p), LAMBDA img : PassesFilters(img, Faker))

\* the first candidate among those of the highest score
FirstOfHighestScore(cands) ==
    cands[CHOOSE i \in 1..Len(cands) :
            \A j \in 1..Len(cands) :
                /\ Score(cands[j], img_team) <= Score(cands[i], img_team)
                /\ j < i => Score(cands[j], img_team) < Score(cands[i], img_team)]

\* C24: whenever at least one image returned by the prefix searches passes
\* the filters, the call returns the candidate of the highest score, the
\* first one met among equal scores; the fallback search is used only when
\* no image passed the filters.
C24_HighestScoreWins ==
    (img_pc = "done" /\ img_ret # "None") =>
        IF Candidates # <<>>
        THEN /\ img_ret = "url_of_best_image"
             /\ best_image = FirstOfHighestScore(Candidates)
        ELSE img_ret \in {"url_of_search_result", "None_of_search"}

-----------------------------------------------------------------------------
(* Properties of the threaded server (SpecWeb) *)

\* C25: at no time are two requests to the upstream source in flight
\* together, and two upstream requests are never dispatched less than the
\* minimum interval apart, for every interleaving of two concurrent HTTP
\* requests that reach the upstream source.
C25_OneInFlightAndSpaced ==
    /\ Cardinality({t \in Threads : th_pc[t] = "flight"}) <= 1
    /\ dispatched >= 2 => last_gap >= API_REQUEST_DELAY

-----------------------------------------------------------------------------
(* Properties of two concurrent upserts (SpecConcurrent) *)

\* the rows of the identity both upserts are about
RowsOfIdentity == {r \in table : r.ign = UpsertPlayers[1].ign}

\* where in the log thread t made its lookup and its write
LookupOf(t) == CHOOSE k \in 1..Len(up_log) : up_log[k].t = t /\ up_log[k].op = "lookup"
WriteOf(t) ==
    CHOOSE k \in 1..Len(up_log) : up_log[k].t = t /\ up_log[k].op \in {"add", "update"}

BothDone == \A t \in Threads : up_pc[t] = "done"

\* both lookups were made before either write
LookupsBeforeWrites ==
    /\ BothDone
    /\ \A t, u \in Threads : LookupOf(t) < WriteOf(u)

\* the row thread t looked up was deleted between its lookup and its update
DeletedUnderUpdate(t) ==
    /\ up_pc[t] = "done"
    /\ up_wrote[t] = "update"
    /\ \E k \in Deletions :
        /\ LookupOf(t) < k
        /\ k < WriteOf(t)
        /\ up_log[k].op = "clear_all" \/ up_log[k].id = up_existing[t]

\* C28: upsert is a lookup and a separate write.  Two concurrent upserts of
\* an identity not yet stored end with exactly one row of it in every
\* interleaving; when both lookups precede both writes the second upsert
\* adds, reports failure and leaves the first caller's totals; when a delete
\* or clear_all falls between the lookup and the update, the upsert reports
\* success and no row of the identity exists afterwards.
C28_UpsertIsLookupThenWrite ==
    /\ (BothDone /\ Deletions = {}) => Cardinality(RowsOfIdentity) = 1
    /\ (LookupsBeforeWrites /\ Deletions = {}) =>
            \E first, second \in Threads :
                /\ WriteOf(first) < WriteOf(second)
                /\ up_wrote[first] = "add" /\ up_ret[first] = "ok"
                /\ up_wrote[second] = "add" /\ up_ret[second] = "failed"
                /\ \A r \in RowsOfIdentity : TotalsOf(r) = UpsertPlayers[first]
    /\ \A t \in Threads :
            DeletedUnderUpdate(t) => (up_ret[t] = "ok" /\ RowsOfIdentity = {})

\* C28 happens: the first upsert added the row, the second looked it up, the
\* row was deleted, and the second upsert's update returned success
C28_UpdatedDeletedRow ==
    /\ BothDone
    /\ DeletedUnderUpdate(2)
    /\ up_wrote[1] = "add"
    /\ up_ret = [t \in Threads |-> "ok"]
    /\ up_log[Len(up_log)].op = "update"

=============================================================================
